---- MODULE Spec2Model ----
(***************************************************************************)
(* A model of the express-jobly backend: the subset matcher               *)
(* (helpers/subset.js), the partial-update builder (helpers/sql.js), the   *)
(* User / Job / Technology models and the matched-jobs route.             *)
(*                                                                         *)
(* JavaScript arrays are sequences, JavaScript objects are sequences of    *)
(* <<key, value>> pairs in insertion order, and a SQL text is the sequence *)
(* of its lexemes.  A table of the store is a collection of rows whose     *)
(* fields carry the physical column names.                                 *)
(***************************************************************************)
EXTENDS Integers, Sequences, FiniteSets, Bags, TLC

VARIABLES
    arr1, arr2, subsetOut,            \* a call of isSubset and its outcome
    dataToUpdate, jsToSql, sqlOut,    \* a call of sqlForPartialUpdate and its outcome
    users, jobs, technologies,        \* tables users, jobs, technologies
    requirements, techskills,         \* tables requirements, techskills
    applications,                     \* table applications
    techSeq,                          \* last value of the sequence behind technologies.id
    inflight,                         \* calls in progress, one per connection
    resp,                             \* outcome of the last operation on the store
    queries                           \* statements the last operation sent to the store

subsetVars == <<arr1, arr2, subsetOut>>
sqlVars    == <<dataToUpdate, jsToSql, sqlOut>>
storeVars  == <<users, jobs, technologies, requirements, techskills, applications,
               techSeq>>
callVars   == <<resp, queries>>
vars       == <<subsetVars, sqlVars, storeVars, callVars, inflight>>

(***************************************************************************)
(* Bounds                                                                  *)
(***************************************************************************)
MaxLen    == 2      \* longest array handed to isSubset
MaxElem   == 2      \* array elements are 0..MaxElem
MaxFields == 2      \* most fields in one update mapping

Elems == 0..MaxElem

\* all sequences over S of length at most n
RECURSIVE SeqsUpTo(_, _)
SeqsUpTo(S, n) ==
    IF n = 0 THEN {<<>>}
    ELSE LET shorter == SeqsUpTo(S, n - 1)
         IN  shorter \cup {Append(s, x) : s \in shorter, x \in S}

Range(s) == {s[i] : i \in 1..Len(s)}

(***************************************************************************)
(* helpers/subset.js                                                       *)
(***************************************************************************)
\* Array.prototype.indexOf: 0-based position of the first element strictly
\* equal to x, or -1
IndexOf(arr, x) ==
    IF \E i \in 1..Len(arr) : arr[i] = x
    THEN (CHOOSE i \in 1..Len(arr) :
              arr[i] = x /\ \A j \in 1..(i - 1) : arr[j] # x) - 1
    ELSE -1

\* the for..of loop of isSubset, from the i-th element of a1 on
RECURSIVE SubsetLoop(_, _, _)
SubsetLoop(a1, a2, i) ==
    IF i > Len(a1) THEN TRUE
    ELSE IF IndexOf(a2, a1[i]) = -1 THEN FALSE
    ELSE SubsetLoop(a1, a2, i + 1)

\* variant: the vacuous case is tested before the empty second array
isSubset_emptyFirst(a1, a2) ==
    IF Len(a1) = 0 THEN TRUE
    ELSE IF Len(a2) = 0 THEN FALSE
    ELSE SubsetLoop(a1, a2, 1)

\* variant: only the first element of a1 is looked up
isSubset_firstOnly(a1, a2) ==
    IF Len(a2) = 0 THEN FALSE
    ELSE IF Len(a1) = 0 THEN TRUE
    ELSE IndexOf(a2, a1[1]) # -1

\* variant: a2 must also be within a1
isSubset_bothWays(a1, a2) ==
    IF Len(a2) = 0 THEN FALSE
    ELSE IF Len(a1) = 0 THEN TRUE
    ELSE SubsetLoop(a1, a2, 1) /\ SubsetLoop(a2, a1, 1)

isSubset(a1, a2) ==
    IF Len(a2) = 0 THEN FALSE
    ELSE IF Len(a1) = 0 THEN TRUE
    ELSE SubsetLoop(a1, a2, 1)

NoSubsetOut == [called |-> FALSE, ret |-> FALSE]

CallIsSubset ==
    /\ ~subsetOut.called
    /\ subsetOut' = [called |-> TRUE, ret |-> isSubset(arr1, arr2)]
    /\ UNCHANGED <<arr1, arr2, sqlVars, storeVars, callVars, inflight>>

(***************************************************************************)
(* JavaScript objects: sequences of <<key, value>> pairs with distinct     *)
(* keys, in insertion order                                                *)
(***************************************************************************)
Undefined == "undefined"

ObjectKeys(obj)   == [i \in 1..Len(obj) |-> obj[i][1]]
ObjectValues(obj) == [i \in 1..Len(obj) |-> obj[i][2]]
HasKey(obj, k)    == \E i \in 1..Len(obj) : obj[i][1] = k

\* obj[k]: the value under k, undefined when obj has no such key
Lookup(obj, k) ==
    IF HasKey(obj, k)
    THEN obj[CHOOSE i \in 1..Len(obj) : obj[i][1] = k][2]
    ELSE Undefined

\* a || b on strings: b when a is undefined or empty
OrElse(a, b) == IF a = Undefined \/ a = "" THEN b ELSE a

\* all objects with at most n distinct keys from K and values from V
Objects(K, V, n) ==
    {o \in SeqsUpTo(K \X V, n) :
        \A i, j \in 1..Len(o) : o[i][1] = o[j][1] => i = j}

(***************************************************************************)
(* helpers/sql.js                                                          *)
(***************************************************************************)
Placeholder(n) == "$" \o ToString(n)

\* the second argument of a call that passes no name table: undefined, written
\* as a value no name table equals
NoTable == <<<<Undefined>>>>

\* Array.prototype.join over arrays of lexemes
RECURSIVE Join(_, _)
Join(parts, sep) ==
    IF Len(parts) = 0 THEN <<>>
    ELSE IF Len(parts) = 1 THEN parts[1]
    ELSE parts[1] \o <<sep>> \o Join(Tail(parts), sep)

\* variant: the name table is not consulted
ColFragment_noTable(table, colName, idx) ==
    <<"\"", colName, "\"", "=", Placeholder(idx + 1)>>

\* variant: placeholders numbered from 0
ColFragment_zeroBased(table, colName, idx) ==
    <<"\"", OrElse(Lookup(table, colName), colName), "\"", "=", Placeholder(idx)>>

\* `"${jsToSql[colName] || colName}"=$${idx + 1}`, idx counted from 0
ColFragment(table, colName, idx) ==
    <<"\"", OrElse(Lookup(table, colName), colName), "\"", "=", Placeholder(idx + 1)>>

SqlCols(data, table) ==
    LET keys == ObjectKeys(data)
    IN  [i \in 1..Len(keys) |-> ColFragment(table, keys[i], i - 1)]

\* variant: no check for an empty mapping
sqlForPartialUpdate_noCheck(data, table) ==
    [threw |-> "none", message |-> "",
     setCols |-> Join(SqlCols(data, table), ", "),
     values |-> ObjectValues(data)]

\* variant: the first value is dropped from the value list
sqlForPartialUpdate_dropValue(data, table) ==
    IF Len(ObjectKeys(data)) = 0
    THEN [threw |-> "BadRequestError", message |-> "No data",
          setCols |-> <<>>, values |-> <<>>]
    ELSE [threw |-> "none", message |-> "",
          setCols |-> Join(SqlCols(data, table), ", "),
          values |-> Tail(ObjectValues(data))]

\* variant: a call without a name table is served as one with an empty table
sqlForPartialUpdate_optionalTable(data, table) ==
    IF Len(ObjectKeys(data)) = 0
    THEN [threw |-> "BadRequestError", message |-> "No data",
          setCols |-> <<>>, values |-> <<>>]
    ELSE [threw |-> "none", message |-> "",
          setCols |-> Join(SqlCols(data, IF table = NoTable THEN <<>> ELSE table), ", "),
          values |-> ObjectValues(data)]

\* the keys are counted first; with keys to render, jsToSql[colName] is read
\* in the callback of keys.map, which throws when jsToSql is undefined
sqlForPartialUpdate(data, table) ==
    IF Len(ObjectKeys(data)) = 0
    THEN [threw |-> "BadRequestError", message |-> "No data",
          setCols |-> <<>>, values |-> <<>>]
    ELSE IF table = NoTable
    THEN [threw |-> "TypeError",
          message |-> "Cannot read properties of undefined",
          setCols |-> <<>>, values |-> <<>>]
    ELSE [threw |-> "none", message |-> "",
          setCols |-> Join(SqlCols(data, table), ", "),
          values |-> ObjectValues(data)]

\* the name tables the models pass to sqlForPartialUpdate
UserJsToSql == <<<<"firstName", "first_name">>, <<"lastName", "last_name">>,
                 <<"isAdmin", "is_admin">>>>
JobJsToSql  == <<<<"companyHandle", "company_handle">>>>
TechJsToSql == <<>>

NoSqlOut == [called |-> FALSE, threw |-> "none", message |-> "",
             setCols |-> <<>>, values |-> <<>>]

CallSqlForPartialUpdate ==
    /\ ~sqlOut.called
    /\ sqlOut' = [called |-> TRUE] @@ sqlForPartialUpdate(dataToUpdate, jsToSql)
    /\ UNCHANGED <<dataToUpdate, jsToSql, subsetVars, storeVars, callVars, inflight>>

(***************************************************************************)
(* Reading a SET clause back, as the store does                            *)
(***************************************************************************)
\* the pieces of a lexeme sequence between occurrences of sep
RECURSIVE SplitOn(_, _, _)
SplitOn(toks, sep, cur) ==
    IF Len(toks) = 0 THEN <<cur>>
    ELSE IF Head(toks) = sep THEN <<cur>> \o SplitOn(Tail(toks), sep, <<>>)
    ELSE SplitOn(Tail(toks), sep, Append(cur, Head(toks)))

\* the assignments of a SET clause; an empty clause has none
Assignments(setCols) ==
    IF Len(setCols) = 0 THEN <<>> ELSE SplitOn(setCols, ", ", <<>>)

IsPlaceholder(tok) == \E n \in 0..(MaxFields + 2) : tok = Placeholder(n)
PlaceholderNo(tok) == CHOOSE n \in 0..(MaxFields + 2) : tok = Placeholder(n)

\* "col"=$n : the column and the parameter number of one assignment
AssignedCol(a)   == a[2]
AssignedParam(a) == PlaceholderNo(a[5])

PlaceholderCount(toks) == Cardinality({i \in 1..Len(toks) : IsPlaceholder(toks[i])})

(***************************************************************************)
(* The store.  users is a set of rows; requirements, techskills and        *)
(* applications are bags of rows, so that a row inserted twice is stored   *)
(* twice; jobs and technologies are sequences of rows in the order a       *)
(* scan of the table returns them.  The store enforces no uniqueness of    *)
(* its own: the models make their own duplicate checks.  Numeric columns   *)
(* hold naturals, and Null stands for SQL NULL in them.  technologies.id   *)
(* is drawn from a sequence whose last value is techSeq.  A statement sent *)
(* to the store is                                                         *)
(* recorded as [sql |-> lexemes, params |-> values]; the column lists of   *)
(* SELECT and RETURNING are left out of the lexemes.                       *)
(***************************************************************************)
NumTechs == 2       \* technologies in the store

Null == -1

Usernames    == {"u1", "u2"}
AnyUsername  == Usernames \cup {"xx"}
JobIds       == {1, 2}
TechIds      == 1..NumTechs
AnyJobId     == JobIds \cup {3}
AnyTechId    == 1..(NumTechs + 1)

\* bcrypt.hash, as an opaque one-way function
Hash(p) == "$2b$" \o p

companies ==
    {[handle |-> "c1", name |-> "C1", description |-> "Desc1",
      num_employees |-> 1, logo_url |-> "http://c1.img"]}

UserRow(u) ==
    [username |-> u, password |-> Hash("password-" \o u),
     first_name |-> u \o "F", last_name |-> u \o "L",
     email |-> u \o "@email.com", is_admin |-> FALSE]

JobRow(i) ==
    [id |-> i, title |-> <<"J", ToString(i)>>, salary |-> i,
     equity |-> IF i = 1 THEN 1 ELSE Null, company_handle |-> "c1"]

TechRow(i) == [id |-> i, name |-> "tech" \o ToString(i)]

\* all orders in which the rows of S can lie in a table
Orderings(S) ==
    {s \in [1..Cardinality(S) -> S] : \A i, j \in DOMAIN s : s[i] = s[j] => i = j}

\* the elements of a set of integers in ascending order
RECURSIVE Ascending(_)
Ascending(S) ==
    IF S = {} THEN <<>>
    ELSE LET m == CHOOSE x \in S : \A y \in S : x <= y
         IN  <<m>> \o Ascending(S \ {m})

Query(sql, params) == [sql |-> sql, params |-> params]
NoResp == [op |-> "none", args |-> <<>>, error |-> "none", message |-> "",
           body |-> <<>>]

\* the two ways a call ends: an exception of kind err, or a value
Threw(err, msg, q) == [threw |-> err, message |-> msg, val |-> <<>>, q |-> q]
Returned(v, q)     == [threw |-> "none", message |-> "", val |-> v, q |-> q]

TechIdsStored == {technologies[i].id : i \in 1..Len(technologies)}
TechName(id) ==
    technologies[CHOOSE i \in 1..Len(technologies) : technologies[i].id = id].name

(***************************************************************************)
(* models/user.js : User.get                                               *)
(***************************************************************************)
UserGet(username) ==
    LET q1   == Query(<<"SELECT", "FROM", "users", "WHERE", "username", "=", "$1">>,
                      <<username>>)
        q2   == Query(<<"SELECT", "FROM", "applications", "WHERE", "username", "=", "$1">>,
                      <<username>>)
        q3   == Query(<<"SELECT", "FROM", "techskills", "JOIN", "technologies",
                        "WHERE", "username", "=", "$1">>, <<username>>)
        rows == {r \in users : r.username = username}
    IN  IF rows = {}
        THEN Threw("NotFoundError", "No user: " \o username, <<q1>>)
        ELSE LET row     == CHOOSE r \in rows : TRUE
                 applied == Ascending({a.job_id : a \in {x \in BagToSet(applications) :
                                                          x.username = username}})
                 skills  == Ascending({sk.tech_id : sk \in {x \in BagToSet(techskills) :
                                                          x.username = username}}
                                      \cap TechIdsStored)
             IN  Returned(
                   [username    |-> row.username,
                    firstName   |-> row.first_name,
                    lastName    |-> row.last_name,
                    email       |-> row.email,
                    isAdmin     |-> row.is_admin,
                    applideJobs |-> [i \in 1..Len(applied) |-> [jobId |-> applied[i]]],
                    techSkills  |-> [i \in 1..Len(skills) |->
                                        [techId |-> skills[i],
                                         techName |-> TechName(skills[i])]]],
                   <<q1, q2, q3>>)

(***************************************************************************)
(* models/job.js : Job.findAll and Job.get                                 *)
(***************************************************************************)
\* lower case of a character, over the letters titles are written in
Lower(c) ==
    CASE c = "J" -> "j"
      [] c = "X" -> "x"
      [] c = "T" -> "t"
      [] c = "E" -> "e"
      [] OTHER   -> c

\* text ILIKE pattern, with the wildcards % and _
RECURSIVE ILike(_, _)
ILike(text, pat) ==
    IF Len(pat) = 0 THEN Len(text) = 0
    ELSE IF Head(pat) = "%"
         THEN ILike(text, Tail(pat)) \/ (Len(text) > 0 /\ ILike(Tail(text), pat))
    ELSE IF Len(text) = 0 THEN FALSE
    ELSE /\ (Head(pat) = "_" \/ Lower(Head(pat)) = Lower(Head(text)))
         /\ ILike(Tail(text), Tail(pat))

\* one condition of a WHERE clause on a row of jobs
EvalCond(row, cond, params) ==
    CASE cond[2] = "ILIKE" -> ILike(row[cond[1]], params[PlaceholderNo(cond[3])])
      [] cond[2] = ">="    -> /\ row[cond[1]] # Null
                              /\ row[cond[1]] >= params[PlaceholderNo(cond[3])]
      [] cond[2] = ">"     -> row[cond[1]] # Null /\ row[cond[1]] > 0

\* the rows of jobs a WHERE clause keeps; an empty clause keeps them all
EvalWhere(row, where, params) ==
    \/ Len(where) = 0
    \/ LET conds == SplitOn(Tail(where), "AND", <<>>)
       IN  \A i \in 1..Len(conds) : EvalCond(row, conds[i], params)

CompanyName(handle) ==
    IF \E c \in companies : c.handle = handle
    THEN (CHOOSE c \in companies : c.handle = handle).name
    ELSE "NULL"

\* variant: the clause is written whether or not there are conditions
WhereClause_always(searchQueries) == <<"WHERE">> \o Join(searchQueries, "AND")

\* "WHERE " + searchQueries.join(" AND ") when there are conditions, else the
\* empty array, which the template renders as nothing
WhereClause(searchQueries) ==
    IF Len(searchQueries) # 0
    THEN <<"WHERE">> \o Join(searchQueries, "AND")
    ELSE <<>>

\* the store rejects a WHERE with no condition after it
WhereOk(where) == Len(where) # 1

\* a boolean or a string, as a filter can hold either under hasEquity
JsBoolean(b) == <<"boolean", b>>
JsString(str) == <<"string", str>>

\* what an if takes for true: the boolean true, and every string but ""
Truthy(v) == IF v[1] = "boolean" THEN v[2] ELSE v[2] # ""

\* searchFilter holds title (a sequence of characters), minSalary (a number)
\* and hasEquity (a boolean or a string), each optional
\* variant: the title is bound as it is
TitlePattern_bare(title) == title

\* `%${title}%`
TitlePattern(title) == <<"%">> \o title \o <<"%">>

JobFindAll(searchFilter) ==
    LET hasTitle  == HasKey(searchFilter, "title")
                     /\ Len(Lookup(searchFilter, "title")) > 0
        hasMin    == HasKey(searchFilter, "minSalary")
                     /\ Lookup(searchFilter, "minSalary") # 0
        hasEquity == HasKey(searchFilter, "hasEquity")
                     /\ Truthy(Lookup(searchFilter, "hasEquity"))
        idx1      == 1
        frag1     == IF hasTitle THEN <<<<"title", "ILIKE", Placeholder(idx1)>>>> ELSE <<>>
        vals1     == IF hasTitle
                     THEN <<TitlePattern(Lookup(searchFilter, "title"))>>
                     ELSE <<>>
        idx2      == IF hasTitle THEN idx1 + 1 ELSE idx1
        frag2     == IF hasMin THEN <<<<"salary", ">=", Placeholder(idx2)>>>> ELSE <<>>
        vals2     == IF hasMin THEN <<Lookup(searchFilter, "minSalary")>> ELSE <<>>
        frag3     == IF hasEquity THEN <<<<"equity", ">", "0">>>> ELSE <<>>
        frags     == frag1 \o frag2 \o frag3
        values    == vals1 \o vals2
        where     == WhereClause(frags)
        q         == Query(<<"SELECT", "FROM", "jobs", "LEFT", "JOIN", "companies">>
                           \o where, values)
        Keep(row) == EvalWhere(row, where, values)
        kept      == SelectSeq(jobs, Keep)
    IN  IF ~WhereOk(where) THEN Threw("DatabaseError", "", <<q>>)
        ELSE
        Returned([i \in 1..Len(kept) |->
                     [id |-> kept[i].id, title |-> kept[i].title,
                      salary |-> kept[i].salary, equity |-> kept[i].equity,
                      companyHandle |-> kept[i].company_handle,
                      companyName |-> CompanyName(kept[i].company_handle)]],
                 <<q>>)

JobGet(id) ==
    LET q1   == Query(<<"SELECT", "FROM", "jobs", "WHERE", "id", "=", "$1">>, <<id>>)
        Is(row) == row.id = id
        rows == SelectSeq(jobs, Is)
    IN  IF Len(rows) = 0
        THEN Threw("NotFoundError", "No job: " \o ToString(id), <<q1>>)
        ELSE LET job  == rows[1]
                 q2   == Query(<<"SELECT", "FROM", "companies", "WHERE", "handle", "=", "$1">>,
                               <<job.company_handle>>)
                 q3   == Query(<<"SELECT", "FROM", "requirements", "JOIN", "technologies",
                                 "WHERE", "job_id", "=", "$1">>, <<id>>)
                 cos  == {c \in companies : c.handle = job.company_handle}
                 co   == IF cos = {} THEN [handle |-> Undefined]
                         ELSE LET c == CHOOSE c \in cos : TRUE
                              IN  [handle |-> c.handle, name |-> c.name,
                                   description |-> c.description,
                                   numEmployees |-> c.num_employees,
                                   logoUrl |-> c.logo_url]
                 reqs == Ascending({r.tech_id : r \in {x \in BagToSet(requirements) :
                                                          x.job_id = id}}
                                   \cap TechIdsStored)
             IN  Returned(
                   [id |-> job.id, title |-> job.title, salary |-> job.salary,
                    equity |-> job.equity, company |-> co,
                    requirements |-> [i \in 1..Len(reqs) |->
                                        [techId |-> reqs[i],
                                         techName |-> TechName(reqs[i])]]],
                   <<q1, q2, q3>>)

(***************************************************************************)
(* routes/users.js : GET /:username/matched-jobs                           *)
(***************************************************************************)
TechIdsOf(rows) == [i \in 1..Len(rows) |-> rows[i].techId]

\* variant: the arguments of isSubset are exchanged
RECURSIVE MatchLoop_swapped(_, _, _, _, _)
MatchLoop_swapped(allJobs, i, userTechSkillIds, matchedJobs, q) ==
    IF i > Len(allJobs) THEN Returned(matchedJobs, q)
    ELSE LET got == JobGet(allJobs[i].id)
         IN  IF got.threw # "none" THEN Threw(got.threw, got.message, q \o got.q)
             ELSE MatchLoop_swapped(allJobs, i + 1, userTechSkillIds,
                      IF isSubset(userTechSkillIds, TechIdsOf(got.val.requirements))
                      THEN Append(matchedJobs, got.val)
                      ELSE matchedJobs,
                      q \o got.q)

\* variant: a matching job is put in front of the ones found so far
RECURSIVE MatchLoop_unshift(_, _, _, _, _)
MatchLoop_unshift(allJobs, i, userTechSkillIds, matchedJobs, q) ==
    IF i > Len(allJobs) THEN Returned(matchedJobs, q)
    ELSE LET got == JobGet(allJobs[i].id)
         IN  IF got.threw # "none" THEN Threw(got.threw, got.message, q \o got.q)
             ELSE MatchLoop_unshift(allJobs, i + 1, userTechSkillIds,
                      IF isSubset(TechIdsOf(got.val.requirements), userTechSkillIds)
                      THEN <<got.val>> \o matchedJobs
                      ELSE matchedJobs,
                      q \o got.q)

\* the for..of loop over allJobs, from the i-th job on
RECURSIVE MatchLoop(_, _, _, _, _)
MatchLoop(allJobs, i, userTechSkillIds, matchedJobs, q) ==
    IF i > Len(allJobs) THEN Returned(matchedJobs, q)
    ELSE LET got == JobGet(allJobs[i].id)
         IN  IF got.threw # "none" THEN Threw(got.threw, got.message, q \o got.q)
             ELSE MatchLoop(allJobs, i + 1, userTechSkillIds,
                      IF isSubset(TechIdsOf(got.val.requirements), userTechSkillIds)
                      THEN Append(matchedJobs, got.val)
                      ELSE matchedJobs,
                      q \o got.q)

\* variant: the postings are fetched before the user is looked up
MatchedJobsHandler_jobsFirst(username) ==
    LET all  == JobFindAll(<<>>)
        user == UserGet(username)
    IN  IF user.threw # "none" THEN Threw(user.threw, user.message, all.q \o user.q)
        ELSE MatchLoop(all.val, 1, TechIdsOf(user.val.techSkills), <<>>,
                       all.q \o user.q)

\* the body of the handler: what it answers and the statements it issues
MatchedJobsHandler(username) ==
    LET user == UserGet(username)
    IN  IF user.threw # "none" THEN Threw(user.threw, user.message, user.q)
        ELSE LET all == JobFindAll(<<>>)
             IN  MatchLoop(all.val, 1, TechIdsOf(user.val.techSkills), <<>>,
                           user.q \o all.q)

Resp(op, args, out) ==
    [op |-> op, args |-> args, error |-> out.threw, message |-> out.message,
     body |-> out.val]

\* variant: the handler drops the requirement rows of the jobs it answers
MatchedJobs_consuming(username) ==
    LET out == MatchedJobsHandler(username)
    IN  /\ resp' = Resp("matched-jobs", <<username>>, out)
        /\ queries' = out.q
        /\ requirements' = IF out.threw # "none" THEN requirements
                           ELSE SetToBag({r \in BagToSet(requirements) :
                                   \A i \in 1..Len(out.val) : out.val[i].id # r.job_id})
        /\ UNCHANGED <<users, jobs, technologies, techskills, applications>>
        /\ UNCHANGED <<subsetVars, sqlVars, techSeq, inflight>>

MatchedJobs(username) ==
    LET out == MatchedJobsHandler(username)
    IN  /\ resp' = Resp("matched-jobs", <<username>>, out)
        /\ queries' = out.q
        /\ UNCHANGED <<storeVars, subsetVars, sqlVars, inflight>>

(***************************************************************************)
(* models/user.js : User.addTechSkill; models/job.js : Job.requireTech     *)
(***************************************************************************)
UserAddTechSkill(username, techId) ==
    LET q1 == Query(<<"SELECT", "FROM", "users", "WHERE", "username", "=", "$1">>,
                    <<username>>)
        q2 == Query(<<"SELECT", "FROM", "technologies", "WHERE", "id", "=", "$1">>,
                    <<techId>>)
        q3 == Query(<<"SELECT", "FROM", "techskills", "WHERE", "username", "=", "$1",
                      "AND", "tech_id", "=", "$2">>, <<username, techId>>)
        q4 == Query(<<"INSERT", "INTO", "techskills", "VALUES", "$1", "$2">>,
                    <<username, techId>>)
        row == [username |-> username, tech_id |-> techId]
    IN  IF ~\E u \in users : u.username = username
        THEN [out |-> Threw("NotFoundError", "No user: " \o username, <<q1>>),
              rows |-> techskills]
        ELSE IF techId \notin TechIdsStored
        THEN [out |-> Threw("NotFoundError", "No job: " \o ToString(techId), <<q1, q2>>),
              rows |-> techskills]
        ELSE IF BagIn(row, techskills)
        THEN [out |-> Threw("BadRequestError", "Duplicate tech skill addition.",
                            <<q1, q2, q3>>),
              rows |-> techskills]
        ELSE [out |-> Returned([username |-> username, techId |-> techId],
                               <<q1, q2, q3, q4>>),
              rows |-> techskills (+) SetToBag({row})]

AddTechSkill(username, techId) ==
    LET r == UserAddTechSkill(username, techId)
    IN  /\ techskills' = r.rows
        /\ resp' = Resp("User.addTechSkill", <<username, techId>>, r.out)
        /\ queries' = r.out.q
        /\ UNCHANGED <<users, jobs, technologies, requirements, applications>>
        /\ UNCHANGED <<subsetVars, sqlVars, techSeq, inflight>>

JobRequireTech(jobId, techId) ==
    LET q1 == Query(<<"SELECT", "FROM", "jobs", "WHERE", "id", "=", "$1">>, <<jobId>>)
        q2 == Query(<<"SELECT", "FROM", "technologies", "WHERE", "id", "=", "$1">>,
                    <<techId>>)
        q3 == Query(<<"SELECT", "FROM", "requirements", "WHERE", "job_id", "=", "$1",
                      "AND", "tech_id", "=", "$2">>, <<jobId, techId>>)
        q4 == Query(<<"INSERT", "INTO", "requirements", "VALUES", "$1", "$2">>,
                    <<jobId, techId>>)
        row == [job_id |-> jobId, tech_id |-> techId]
    IN  IF ~\E i \in 1..Len(jobs) : jobs[i].id = jobId
        THEN [out |-> Threw("NotFoundError", "No job: " \o ToString(jobId), <<q1>>),
              rows |-> requirements]
        ELSE IF techId \notin TechIdsStored
        THEN [out |-> Threw("NotFoundError", "No tech: " \o ToString(techId), <<q1, q2>>),
              rows |-> requirements]
        ELSE IF BagIn(row, requirements)
        THEN [out |-> Threw("BadRequestError", "Duplicate tech requirement.",
                            <<q1, q2, q3>>),
              rows |-> requirements]
        ELSE [out |-> Returned([jobId |-> jobId, techId |-> techId],
                               <<q1, q2, q3, q4>>),
              rows |-> requirements (+) SetToBag({row})]

RequireTech(jobId, techId) ==
    LET r == JobRequireTech(jobId, techId)
    IN  /\ requirements' = r.rows
        /\ resp' = Resp("Job.requireTech", <<jobId, techId>>, r.out)
        /\ queries' = r.out.q
        /\ UNCHANGED <<users, jobs, technologies, techskills, applications>>
        /\ UNCHANGED <<subsetVars, sqlVars, techSeq, inflight>>

(***************************************************************************)
(* models/technology.js : Technology.create; models/user.js :              *)
(* User.register, User.applyToJob.  The duplicate check and the INSERT are *)
(* separate statements, so each is an operator of its own.                 *)
(***************************************************************************)
TechDuplicateCheck(name) == \E i \in 1..Len(technologies) : technologies[i].name = name

\* INSERT INTO technologies (name): the id is the next value of the sequence
TechInsert(name) == Append(technologies, [id |-> techSeq + 1, name |-> name])

\* variant: create without the duplicate check
TechnologyCreate_unchecked(name) ==
    LET q2 == Query(<<"INSERT", "INTO", "technologies", "VALUES", "$1">>, <<name>>)
    IN  [out |-> Returned([id |-> techSeq + 1, name |-> name], <<q2>>),
         rows |-> TechInsert(name), seq |-> techSeq + 1]

TechnologyCreate(name) ==
    LET q1 == Query(<<"SELECT", "FROM", "technologies", "WHERE", "name", "=", "$1">>,
                    <<name>>)
        q2 == Query(<<"INSERT", "INTO", "technologies", "VALUES", "$1">>, <<name>>)
    IN  IF TechDuplicateCheck(name)
        THEN [out |-> Threw("BadRequestError", "Duplicate technology: " \o name, <<q1>>),
              rows |-> technologies, seq |-> techSeq]
        ELSE [out |-> Returned([id |-> techSeq + 1, name |-> name], <<q1, q2>>),
              rows |-> TechInsert(name), seq |-> techSeq + 1]

CreateTechnology(name) ==
    LET r == TechnologyCreate(name)
    IN  /\ technologies' = r.rows
        /\ techSeq' = r.seq
        /\ resp' = Resp("Technology.create", <<name>>, r.out)
        /\ queries' = r.out.q
        /\ UNCHANGED <<users, jobs, requirements, techskills, applications>>
        /\ UNCHANGED <<subsetVars, sqlVars, inflight>>

UserRegister(data) ==
    LET q1  == Query(<<"SELECT", "FROM", "users", "WHERE", "username", "=", "$1">>,
                     <<data.username>>)
        hashedPassword == Hash(data.password)
        q2  == Query(<<"INSERT", "INTO", "users", "VALUES",
                       "$1", "$2", "$3", "$4", "$5", "$6">>,
                     <<data.username, hashedPassword, data.firstName, data.lastName,
                       data.email, data.isAdmin>>)
        row == [username |-> data.username, password |-> hashedPassword,
                first_name |-> data.firstName, last_name |-> data.lastName,
                email |-> data.email, is_admin |-> data.isAdmin]
    IN  IF \E u \in users : u.username = data.username
        THEN [out |-> Threw("BadRequestError", "Duplicate username: " \o data.username,
                            <<q1>>),
              rows |-> users]
        ELSE [out |-> Returned([username |-> data.username, firstName |-> data.firstName,
                                lastName |-> data.lastName, email |-> data.email,
                                isAdmin |-> data.isAdmin], <<q1, q2>>),
              rows |-> users \cup {row}]

Register(data) ==
    LET r == UserRegister(data)
    IN  /\ users' = r.rows
        /\ resp' = Resp("User.register", <<data>>, r.out)
        /\ queries' = r.out.q
        /\ UNCHANGED <<jobs, technologies, requirements, techskills, applications>>
        /\ UNCHANGED <<subsetVars, sqlVars, techSeq, inflight>>

UserApplyToJob(username, jobId) ==
    LET q1 == Query(<<"SELECT", "FROM", "users", "WHERE", "username", "=", "$1">>,
                    <<username>>)
        q2 == Query(<<"SELECT", "FROM", "jobs", "WHERE", "id", "=", "$1">>, <<jobId>>)
        q3 == Query(<<"SELECT", "FROM", "applications", "WHERE", "username", "=", "$1",
                      "AND", "job_id", "=", "$2">>, <<username, jobId>>)
        q4 == Query(<<"INSERT", "INTO", "applications", "VALUES", "$1", "$2">>,
                    <<username, jobId>>)
        row == [username |-> username, job_id |-> jobId]
    IN  IF ~\E u \in users : u.username = username
        THEN [out |-> Threw("NotFoundError", "No user: " \o username, <<q1>>),
              rows |-> applications]
        ELSE IF ~\E i \in 1..Len(jobs) : jobs[i].id = jobId
        THEN [out |-> Threw("NotFoundError", "No job: " \o ToString(jobId), <<q1, q2>>),
              rows |-> applications]
        ELSE IF BagIn(row, applications)
        THEN [out |-> Threw("BadRequestError", "Duplicate application", <<q1, q2, q3>>),
              rows |-> applications]
        ELSE [out |-> Returned([username |-> username, jobId |-> jobId],
                               <<q1, q2, q3, q4>>),
              rows |-> applications (+) SetToBag({row})]

ApplyToJob(username, jobId) ==
    LET r == UserApplyToJob(username, jobId)
    IN  /\ applications' = r.rows
        /\ resp' = Resp("User.applyToJob", <<username, jobId>>, r.out)
        /\ queries' = r.out.q
        /\ UNCHANGED <<users, jobs, technologies, requirements, techskills>>
        /\ UNCHANGED <<subsetVars, sqlVars, techSeq, inflight>>

(***************************************************************************)
(* models/user.js : User.remove; models/job.js : Job.remove;               *)
(* models/technology.js : Technology.remove.  A DELETE removes the rows    *)
(* its WHERE clause selects; whether the rows of other tables that refer   *)
(* to a deleted row go with it is left open (cascade).                     *)
(***************************************************************************)
BagSelect(B, S) == [r \in (BagToSet(B) \cap S) |-> CopiesIn(r, B)]

\* variant: the DELETE of a missing row is taken for a success
Deleted_always(found, err, msg, q) == Returned(Undefined, <<q>>)

Deleted(found, err, msg, q) ==
    IF found THEN Returned(Undefined, <<q>>) ELSE Threw(err, msg, <<q>>)

UserRemove(username, cascade) ==
    LET q    == Query(<<"DELETE", "FROM", "users", "WHERE", "username", "=", "$1">>,
                      <<username>>)
        gone == {u \in users : u.username = username}
    IN  [out   |-> Deleted(gone # {}, "NotFoundError", "No user: " \o username, q),
         users |-> users \ gone,
         applications |-> IF cascade /\ gone # {}
                          THEN BagSelect(applications,
                                   {a \in BagToSet(applications) : a.username # username})
                          ELSE applications,
         techskills   |-> IF cascade /\ gone # {}
                          THEN BagSelect(techskills,
                                   {s \in BagToSet(techskills) : s.username # username})
                          ELSE techskills]

RemoveUser(username) ==
    \E cascade \in BOOLEAN :
        LET r == UserRemove(username, cascade)
        IN  /\ users' = r.users
            /\ applications' = r.applications
            /\ techskills' = r.techskills
            /\ resp' = Resp("User.remove", <<username>>, r.out)
            /\ queries' = r.out.q
            /\ UNCHANGED <<jobs, technologies, requirements>>
            /\ UNCHANGED <<subsetVars, sqlVars, techSeq, inflight>>

JobRemove(id, cascade) ==
    LET q     == Query(<<"DELETE", "FROM", "jobs", "WHERE", "id", "=", "$1">>, <<id>>)
        found == \E i \in 1..Len(jobs) : jobs[i].id = id
    IN  [out  |-> Deleted(found, "NotFoundError", "No job: " \o ToString(id), q),
         jobs |-> SelectSeq(jobs, LAMBDA j : j.id # id),
         applications |-> IF cascade /\ found
                          THEN BagSelect(applications,
                                   {a \in BagToSet(applications) : a.job_id # id})
                          ELSE applications,
         requirements |-> IF cascade /\ found
                          THEN BagSelect(requirements,
                                   {x \in BagToSet(requirements) : x.job_id # id})
                          ELSE requirements]

RemoveJob(id) ==
    \E cascade \in BOOLEAN :
        LET r == JobRemove(id, cascade)
        IN  /\ jobs' = r.jobs
            /\ applications' = r.applications
            /\ requirements' = r.requirements
            /\ resp' = Resp("Job.remove", <<id>>, r.out)
            /\ queries' = r.out.q
            /\ UNCHANGED <<users, technologies, techskills>>
            /\ UNCHANGED <<subsetVars, sqlVars, techSeq, inflight>>

TechnologyRemove(id, cascade) ==
    LET q     == Query(<<"DELETE", "FROM", "technologies", "WHERE", "id", "=", "$1">>,
                       <<id>>)
        found == \E i \in 1..Len(technologies) : technologies[i].id = id
    IN  [out  |-> Deleted(found, "NotFoundError", "No technology: " \o ToString(id), q),
         technologies |-> SelectSeq(technologies, LAMBDA t : t.id # id),
         techskills   |-> IF cascade /\ found
                          THEN BagSelect(techskills,
                                   {s \in BagToSet(techskills) : s.tech_id # id})
                          ELSE techskills,
         requirements |-> IF cascade /\ found
                          THEN BagSelect(requirements,
                                   {x \in BagToSet(requirements) : x.tech_id # id})
                          ELSE requirements]

RemoveTechnology(id) ==
    \E cascade \in BOOLEAN :
        LET r == TechnologyRemove(id, cascade)
        IN  /\ technologies' = r.technologies
            /\ techskills' = r.techskills
            /\ requirements' = r.requirements
            /\ resp' = Resp("Technology.remove", <<id>>, r.out)
            /\ queries' = r.out.q
            /\ UNCHANGED <<users, jobs, applications>>
            /\ UNCHANGED <<subsetVars, sqlVars, techSeq, inflight>>

(***************************************************************************)
(* models/user.js : User.authenticate                                      *)
(***************************************************************************)
\* bcrypt.compare
Compare(password, hash) == hash = Hash(password)

\* variant: an unknown username is reported as such
UserAuthenticate_tellsMissing(username, password) ==
    LET q    == Query(<<"SELECT", "FROM", "users", "WHERE", "username", "=", "$1">>,
                      <<username>>)
        rows == {u \in users : u.username = username}
    IN  IF rows = {}
        THEN Threw("NotFoundError", "No user: " \o username, <<q>>)
        ELSE LET user == CHOOSE u \in rows : TRUE
             IN  IF Compare(password, user.password)
                 THEN Returned([username |-> user.username, firstName |-> user.first_name,
                                lastName |-> user.last_name, email |-> user.email,
                                isAdmin |-> user.is_admin], <<q>>)
                 ELSE Threw("UnauthorizedError", "Invalid username/password", <<q>>)

UserAuthenticate(username, password) ==
    LET q    == Query(<<"SELECT", "FROM", "users", "WHERE", "username", "=", "$1">>,
                      <<username>>)
        rows == {u \in users : u.username = username}
    IN  IF rows # {} /\ Compare(password, (CHOOSE u \in rows : TRUE).password)
        THEN LET user == CHOOSE u \in rows : TRUE
             IN  Returned([username |-> user.username, firstName |-> user.first_name,
                           lastName |-> user.last_name, email |-> user.email,
                           isAdmin |-> user.is_admin], <<q>>)
        ELSE Threw("UnauthorizedError", "Invalid username/password", <<q>>)

Authenticate(username, password) ==
    LET out == UserAuthenticate(username, password)
    IN  /\ resp' = Resp("User.authenticate", <<username, password>>, out)
        /\ queries' = out.q
        /\ UNCHANGED <<storeVars, subsetVars, sqlVars, inflight>>

(***************************************************************************)
(* Two calls in progress at once.  A call awaits each of its statements,   *)
(* so between two statements of one call the statements of another may     *)
(* run.  A call in progress is [op, args, pc, out]: pc counts the          *)
(* statements it has run, out is "pending" until it returns or throws.     *)
(* User.applyToJob, User.addTechSkill, Job.requireTech (two SELECTs for    *)
(* the rows referred to, the duplicate check, the INSERT) and              *)
(* Technology.create (the duplicate check, the INSERT).                    *)
(***************************************************************************)
Procs == {1, 2}

Statements(op) ==
    CASE op = "User.applyToJob"   -> <<"checkUsername", "checkJobId",
                                       "duplicateCheck", "insert">>
      [] op = "User.addTechSkill" -> <<"checkUsername", "checkTechId",
                                       "duplicateCheck", "insert">>
      [] op = "Job.requireTech"   -> <<"checkJobId", "checkTechId",
                                       "duplicateCheck", "insert">>
      [] op = "Technology.create" -> <<"duplicateCheck", "insert">>

Call(op, args) == [op |-> op, args |-> args, pc |-> 1, out |-> "pending"]

Returns(c) == c.pc > Len(Statements(c.op))

\* the row a call is to insert
NewRow(c) ==
    CASE c.op = "User.applyToJob"   -> [username |-> c.args[1], job_id |-> c.args[2]]
      [] c.op = "User.addTechSkill" -> [username |-> c.args[1], tech_id |-> c.args[2]]
      [] c.op = "Job.requireTech"   -> [job_id |-> c.args[1], tech_id |-> c.args[2]]
      [] c.op = "Technology.create" -> [id |-> techSeq + 1, name |-> c.args[1]]

\* rows[0] of a SELECT of the call is there
RowFound(c, statement) ==
    CASE statement = "checkUsername" -> \E u \in users : u.username = c.args[1]
      [] statement = "checkJobId" ->
             \E i \in 1..Len(jobs) :
                 jobs[i].id = (IF c.op = "Job.requireTech" THEN c.args[1] ELSE c.args[2])
      [] statement = "checkTechId" -> c.args[2] \in TechIdsStored
      [] statement = "duplicateCheck" ->
             CASE c.op = "User.applyToJob"   -> BagIn(NewRow(c), applications)
               [] c.op = "User.addTechSkill" -> BagIn(NewRow(c), techskills)
               [] c.op = "Job.requireTech"   -> BagIn(NewRow(c), requirements)
               [] c.op = "Technology.create" -> TechDuplicateCheck(c.args[1])

\* the call throws after a SELECT: NotFoundError when a row referred to is
\* missing, BadRequestError when the duplicate check finds a row
Throws(c, statement) ==
    IF statement = "duplicateCheck" THEN RowFound(c, statement)
    ELSE ~RowFound(c, statement)

Thrown(c, statement) ==
    [c EXCEPT !.pc = Len(Statements(c.op)) + 1,
              !.out = IF statement = "duplicateCheck" THEN "BadRequestError"
                      ELSE "NotFoundError"]

\* the next statement of call p is a SELECT
RunSelect(p) ==
    LET c == inflight[p]
    IN  /\ ~Returns(c)
        /\ Statements(c.op)[c.pc] # "insert"
        /\ inflight' = [inflight EXCEPT ![p] =
                           IF Throws(c, Statements(c.op)[c.pc])
                           THEN Thrown(c, Statements(c.op)[c.pc])
                           ELSE [c EXCEPT !.pc = @ + 1]]
        /\ UNCHANGED <<storeVars, callVars, subsetVars, sqlVars>>

\* the next statement of call p is its INSERT, after which it returns
RunInsert(p) ==
    LET c == inflight[p]
    IN  /\ ~Returns(c)
        /\ Statements(c.op)[c.pc] = "insert"
        /\ inflight' = [inflight EXCEPT ![p] = [c EXCEPT !.pc = @ + 1, !.out = "none"]]
        /\ applications' = IF c.op = "User.applyToJob"
                           THEN applications (+) SetToBag({NewRow(c)}) ELSE applications
        /\ techskills' = IF c.op = "User.addTechSkill"
                         THEN techskills (+) SetToBag({NewRow(c)}) ELSE techskills
        /\ requirements' = IF c.op = "Job.requireTech"
                           THEN requirements (+) SetToBag({NewRow(c)}) ELSE requirements
        /\ technologies' = IF c.op = "Technology.create"
                           THEN TechInsert(c.args[1]) ELSE technologies
        /\ techSeq' = IF c.op = "Technology.create" THEN techSeq + 1 ELSE techSeq
        /\ UNCHANGED <<users, jobs, callVars, subsetVars, sqlVars>>

(***************************************************************************)
(* UPDATE statements, as the store runs them:                              *)
(*   UPDATE <table> SET <assignments> WHERE <key> = $k RETURNING           *)
(***************************************************************************)
FirstAt(toks, t) == CHOOSE i \in 1..Len(toks) :
                        toks[i] = t /\ \A j \in 1..(i - 1) : toks[j] # t

SetClause(sql)   == SubSeq(sql, FirstAt(sql, "SET") + 1, FirstAt(sql, "WHERE") - 1)
WhereCol(sql)    == sql[FirstAt(sql, "WHERE") + 1]
WhereParam(sql)  == PlaceholderNo(sql[FirstAt(sql, "WHERE") + 3])

\* the store rejects a statement with an empty SET clause, with a column the
\* table does not have, or with a placeholder that has no parameter
StatementOk(sql, params, columns) ==
    LET as == Assignments(SetClause(sql))
    IN  /\ Len(as) > 0
        /\ \A i \in 1..Len(as) : /\ AssignedCol(as[i]) \in columns
                                 /\ AssignedParam(as[i]) \in 1..Len(params)
        /\ WhereParam(sql) \in 1..Len(params)

RECURSIVE ApplyAssignments(_, _, _)
ApplyAssignments(row, as, params) ==
    IF Len(as) = 0 THEN row
    ELSE ApplyAssignments(
             [row EXCEPT ![AssignedCol(Head(as))] = params[AssignedParam(Head(as))]],
             Tail(as), params)

RowMatches(row, sql, params) == row[WhereCol(sql)] = params[WhereParam(sql)]
\* variant: the WHERE clause is not looked at, every row is assigned to
RowUpdated_everyRow(row, sql, params) ==
    ApplyAssignments(row, Assignments(SetClause(sql)), params)

RowUpdated(row, sql, params) ==
    IF RowMatches(row, sql, params)
    THEN ApplyAssignments(row, Assignments(SetClause(sql)), params)
    ELSE row

UserColumns == {"username", "password", "first_name", "last_name", "email", "is_admin"}
JobColumns  == {"id", "title", "salary", "equity", "company_handle"}
TechColumns == {"id", "name"}

(***************************************************************************)
(* models/user.js : User.update                                            *)
(***************************************************************************)
\* data.password = await bcrypt.hash(data.password, ...) when it is set
\* variant: the identifier is not passed to the store
UpdateParams_noId(values, id) == values

\* [...values, id]: the parameters of an UPDATE
UpdateParams(values, id) == values \o <<id>>

WithHashedPassword(data) ==
    [i \in 1..Len(data) |->
        IF data[i][1] = "password" /\ data[i][2] # ""
        THEN <<"password", Hash(data[i][2])>>
        ELSE data[i]]

\* the outcome of the call and the users table it leaves
UserUpdate(username, data) ==
    LET built == sqlForPartialUpdate(WithHashedPassword(data), UserJsToSql)
    IN  IF built.threw # "none"
        THEN [out |-> Threw(built.threw, built.message, <<>>), rows |-> users]
        ELSE
        LET usernameVarIdx == Placeholder(Len(built.values) + 1)
            sql    == <<"UPDATE", "users", "SET">> \o built.setCols
                      \o <<"WHERE", "username", "=", usernameVarIdx, "RETURNING">>
            params == UpdateParams(built.values, username)
            q      == Query(sql, params)
        IN  IF ~StatementOk(sql, params, UserColumns)
            THEN [out |-> Threw("DatabaseError", "", <<q>>), rows |-> users]
            ELSE
            LET hit == {r \in users : RowMatches(r, sql, params)}
            IN  IF hit = {}
                THEN [out |-> Threw("NotFoundError", "No user: " \o username, <<q>>),
                      rows |-> users]
                ELSE LET user == RowUpdated(CHOOSE r \in hit : TRUE, sql, params)
                     IN  [out |-> Returned([username  |-> user.username,
                                            firstName |-> user.first_name,
                                            lastName  |-> user.last_name,
                                            email     |-> user.email,
                                            isAdmin   |-> user.is_admin], <<q>>),
                          rows |-> {RowUpdated(r, sql, params) : r \in users}]

UpdateUser(username, data) ==
    LET r == UserUpdate(username, data)
    IN  /\ users' = r.rows
        /\ resp' = Resp("User.update", <<username, data>>, r.out)
        /\ queries' = r.out.q
        /\ UNCHANGED <<jobs, technologies, requirements, techskills, applications>>
        /\ UNCHANGED <<subsetVars, sqlVars, techSeq, inflight>>

(***************************************************************************)
(* models/job.js : Job.update                                              *)
(***************************************************************************)
JobUpdate(id, data) ==
    LET built == sqlForPartialUpdate(data, JobJsToSql)
    IN  IF built.threw # "none"
        THEN [out |-> Threw(built.threw, built.message, <<>>), rows |-> jobs]
        ELSE
        LET idVarIdx == Placeholder(Len(built.values) + 1)
            sql    == <<"UPDATE", "jobs", "SET">> \o built.setCols
                      \o <<"WHERE", "id", "=", idVarIdx, "RETURNING">>
            params == UpdateParams(built.values, id)
            q      == Query(sql, params)
        IN  IF ~StatementOk(sql, params, JobColumns)
            THEN [out |-> Threw("DatabaseError", "", <<q>>), rows |-> jobs]
            ELSE
            LET hit == {i \in 1..Len(jobs) : RowMatches(jobs[i], sql, params)}
            IN  IF hit = {}
                THEN [out |-> Threw("NotFoundError", "No job: " \o ToString(id), <<q>>),
                      rows |-> jobs]
                ELSE LET job == RowUpdated(jobs[CHOOSE i \in hit :
                                                  \A j \in hit : i <= j], sql, params)
                     IN  [out |-> Returned([id |-> job.id, title |-> job.title,
                                            salary |-> job.salary,
                                            equity |-> job.equity,
                                            companyHandle |-> job.company_handle],
                                           <<q>>),
                          rows |-> [i \in 1..Len(jobs) |->
                                      RowUpdated(jobs[i], sql, params)]]

UpdateJob(id, data) ==
    LET r == JobUpdate(id, data)
    IN  /\ jobs' = r.rows
        /\ resp' = Resp("Job.update", <<id, data>>, r.out)
        /\ queries' = r.out.q
        /\ UNCHANGED <<users, technologies, requirements, techskills, applications>>
        /\ UNCHANGED <<subsetVars, sqlVars, techSeq, inflight>>

(***************************************************************************)
(* models/technology.js : Technology.update                                *)
(***************************************************************************)
TechnologyUpdate(id, data) ==
    LET built == sqlForPartialUpdate(data, TechJsToSql)
    IN  IF built.threw # "none"
        THEN [out |-> Threw(built.threw, built.message, <<>>), rows |-> technologies]
        ELSE
        LET idVarIdx == Placeholder(Len(built.values) + 1)
            sql    == <<"UPDATE", "technologies", "SET">> \o built.setCols
                      \o <<"WHERE", "id", "=", idVarIdx, "RETURNING">>
            params == UpdateParams(built.values, id)
            q      == Query(sql, params)
        IN  IF ~StatementOk(sql, params, TechColumns)
            THEN [out |-> Threw("DatabaseError", "", <<q>>), rows |-> technologies]
            ELSE
            LET hit == {i \in 1..Len(technologies) :
                          RowMatches(technologies[i], sql, params)}
            IN  IF hit = {}
                THEN [out |-> Threw("NotFoundError",
                                    "No technology: " \o ToString(id), <<q>>),
                      rows |-> technologies]
                ELSE LET tech == RowUpdated(technologies[CHOOSE i \in hit :
                                                  \A j \in hit : i <= j], sql, params)
                     IN  [out |-> Returned([id |-> tech.id, name |-> tech.name], <<q>>),
                          rows |-> [i \in 1..Len(technologies) |->
                                      RowUpdated(technologies[i], sql, params)]]

UpdateTechnology(id, data) ==
    LET r == TechnologyUpdate(id, data)
    IN  /\ technologies' = r.rows
        /\ resp' = Resp("Technology.update", <<id, data>>, r.out)
        /\ queries' = r.out.q
        /\ UNCHANGED <<users, jobs, requirements, techskills, applications>>
        /\ UNCHANGED <<subsetVars, sqlVars, techSeq, inflight>>

(***************************************************************************)
(* models/job.js : a call of Job.findAll                                   *)
(***************************************************************************)
FindAllJobs(searchFilter) ==
    LET out == JobFindAll(searchFilter)
    IN  /\ resp' = Resp("Job.findAll", <<searchFilter>>, out)
        /\ queries' = out.q
        /\ UNCHANGED <<storeVars, subsetVars, sqlVars, inflight>>

(***************************************************************************)
(* models/technology.js : Technology.findAll                               *)
(***************************************************************************)
\* the characters of a technology name
Chars(name) ==
    LET i == CHOOSE k \in 1..(NumTechs + 1) : name = "tech" \o ToString(k)
    IN  <<"t", "e", "c", "h", ToString(i)>>

\* searchFilter holds name (a sequence of characters), optional
TechnologyFindAll(searchFilter) ==
    LET hasName == HasKey(searchFilter, "name")
                   /\ Len(Lookup(searchFilter, "name")) > 0
        idx     == 1
        frags   == IF hasName THEN <<<<"name", "ILIKE", Placeholder(idx)>>>> ELSE <<>>
        values  == IF hasName
                   THEN <<<<"%">> \o Lookup(searchFilter, "name") \o <<"%">>>>
                   ELSE <<>>
        where   == WhereClause(frags)
        q       == Query(<<"SELECT", "FROM", "technologies">> \o where, values)
        Keep(row) == \/ Len(where) = 0
                     \/ ILike(Chars(row[where[2]]), values[PlaceholderNo(where[4])])
        kept    == SelectSeq(technologies, Keep)
    IN  IF ~WhereOk(where) THEN Threw("DatabaseError", "", <<q>>)
        ELSE
        Returned([i \in 1..Len(kept) |-> [id |-> kept[i].id, name |-> kept[i].name]],
                 <<q>>)

FindAllTechnologies(searchFilter) ==
    LET out == TechnologyFindAll(searchFilter)
    IN  /\ resp' = Resp("Technology.findAll", <<searchFilter>>, out)
        /\ queries' = out.q
        /\ UNCHANGED <<storeVars, subsetVars, sqlVars, inflight>>

(***************************************************************************)
(* models/technology.js : Technology.get                                   *)
(***************************************************************************)
TechnologyGet(id) ==
    LET q1   == Query(<<"SELECT", "FROM", "technologies", "WHERE", "id", "=", "$1">>,
                      <<id>>)
        Is(row) == row.id = id
        rows == SelectSeq(technologies, Is)
    IN  IF Len(rows) = 0
        THEN Threw("NotFoundError", "No technology: " \o ToString(id), <<q1>>)
        ELSE Returned([id |-> rows[1].id, name |-> rows[1].name], <<q1>>)

(***************************************************************************)
(* User.get, Job.get and Technology.get as calls of their own              *)
(***************************************************************************)
GetUser(username) ==
    LET out == UserGet(username)
    IN  /\ resp' = Resp("User.get", <<username>>, out)
        /\ queries' = out.q
        /\ UNCHANGED <<storeVars, subsetVars, sqlVars, inflight>>

GetJob(id) ==
    LET out == JobGet(id)
    IN  /\ resp' = Resp("Job.get", <<id>>, out)
        /\ queries' = out.q
        /\ UNCHANGED <<storeVars, subsetVars, sqlVars, inflight>>

GetTechnology(id) ==
    LET out == TechnologyGet(id)
    IN  /\ resp' = Resp("Technology.get", <<id>>, out)
        /\ queries' = out.q
        /\ UNCHANGED <<storeVars, subsetVars, sqlVars, inflight>>

(***************************************************************************)
(* routes : who a request is from, and the gate in front of each handler   *)
(*                                                                         *)
(* res.locals.user holds the payload of the request's token, username and  *)
(* isAdmin, or nothing for a request without a valid token.  The routers   *)
(* name the gate of each route; the gates themselves are middleware/auth.  *)
(***************************************************************************)
Anonymous == [present |-> FALSE, username |-> "", isAdmin |-> FALSE]
Identity(username, isAdmin) ==
    [present |-> TRUE, username |-> username, isAdmin |-> isAdmin]

\* variant: GET /users/:username is for admins only
UserRouteGate_getAdminOnly(route) ==
    CASE route = "POST /users"                                -> "ensureIsAdmin"
      [] route = "GET /users"                                 -> "ensureIsAdmin"
      [] route = "GET /users/:username"                       -> "ensureIsAdmin"
      [] route = "PATCH /users/:username"                     -> "ensureAdminOrCorrectUser"
      [] route = "DELETE /users/:username"                    -> "ensureAdminOrCorrectUser"
      [] route = "POST /users/:username/jobs/:job_id"         -> "ensureAdminOrCorrectUser"
      [] route = "POST /users/:username/techs/:tech_id"       -> "ensureAdminOrCorrectUser"
      [] route = "GET /users/:username/matched-jobs"          -> "ensureAdminOrCorrectUser"

UserRouteGate(route) ==
    CASE route = "POST /users"                                -> "ensureIsAdmin"
      [] route = "GET /users"                                 -> "ensureIsAdmin"
      [] route = "GET /users/:username"                       -> "ensureAdminOrCorrectUser"
      [] route = "PATCH /users/:username"                     -> "ensureAdminOrCorrectUser"
      [] route = "DELETE /users/:username"                    -> "ensureAdminOrCorrectUser"
      [] route = "POST /users/:username/jobs/:job_id"         -> "ensureAdminOrCorrectUser"
      [] route = "POST /users/:username/techs/:tech_id"       -> "ensureAdminOrCorrectUser"
      [] route = "GET /users/:username/matched-jobs"          -> "ensureAdminOrCorrectUser"

UserRoutes ==
    {"POST /users", "GET /users", "GET /users/:username", "PATCH /users/:username",
     "DELETE /users/:username", "POST /users/:username/jobs/:job_id",
     "POST /users/:username/techs/:tech_id", "GET /users/:username/matched-jobs"}

\* variant: DELETE /techs/:id has no gate
TechRouteGate_deleteOpen(route) ==
    CASE route = "POST /techs"       -> "ensureIsAdmin"
      [] route = "GET /techs"        -> "none"
      [] route = "GET /techs/:id"    -> "none"
      [] route = "PATCH /techs/:id"  -> "ensureIsAdmin"
      [] route = "DELETE /techs/:id" -> "none"

\* variant: POST /techs has no gate
TechRouteGate_postOpen(route) ==
    CASE route = "POST /techs"       -> "none"
      [] route = "GET /techs"        -> "none"
      [] route = "GET /techs/:id"    -> "none"
      [] route = "PATCH /techs/:id"  -> "ensureIsAdmin"
      [] route = "DELETE /techs/:id" -> "ensureIsAdmin"

TechRouteGate(route) ==
    CASE route = "POST /techs"       -> "ensureIsAdmin"
      [] route = "GET /techs"        -> "none"
      [] route = "GET /techs/:id"    -> "none"
      [] route = "PATCH /techs/:id"  -> "ensureIsAdmin"
      [] route = "DELETE /techs/:id" -> "ensureIsAdmin"

TechRoutes ==
    {"POST /techs", "GET /techs", "GET /techs/:id", "PATCH /techs/:id",
     "DELETE /techs/:id"}

\* the gated routes of the jobs router, as its tests show them
JobRouteGate(route) ==
    CASE route = "POST /jobs"                    -> "ensureIsAdmin"
      [] route = "PATCH /jobs/:id"               -> "ensureIsAdmin"
      [] route = "DELETE /jobs/:id"              -> "ensureIsAdmin"
      [] route = "POST /jobs/:id/techs/:tech_id" -> "ensureIsAdmin"

JobRoutes ==
    {"POST /jobs", "PATCH /jobs/:id", "DELETE /jobs/:id",
     "POST /jobs/:id/techs/:tech_id"}

RouteGate(route) ==
    IF route \in UserRoutes THEN UserRouteGate(route)
    ELSE IF route \in TechRoutes THEN TechRouteGate(route)
    ELSE JobRouteGate(route)

Routes == UserRoutes \cup TechRoutes \cup JobRoutes

\* the routes with :username in their path
UsernameRoutes ==
    {"GET /users/:username", "PATCH /users/:username", "DELETE /users/:username",
     "POST /users/:username/jobs/:job_id", "POST /users/:username/techs/:tech_id",
     "GET /users/:username/matched-jobs"}

\* the two gates: an admin; an admin or the user the route names
ensureIsAdmin(user) == user.present /\ user.isAdmin

ensureAdminOrCorrectUser(user, username) ==
    user.present /\ (user.isAdmin \/ user.username = username)

\* variant: a request from a user who may not pass is told so as forbidden
DenyOutcome_forbidden(user) ==
    IF user.present
    THEN Threw("ForbiddenError", "Forbidden", <<>>)
    ELSE Threw("UnauthorizedError", "Unauthorized", <<>>)

\* what a gate answers a request it does not let pass, whoever it is from
DenyOutcome(user) == Threw("UnauthorizedError", "Unauthorized", <<>>)

\* the status an error kind is answered with
StatusCode(error) ==
    CASE error = "UnauthorizedError" -> 401
      [] error = "BadRequestError"   -> 400
      [] error = "NotFoundError"     -> 404
      [] OTHER                       -> 500

\* the search schema of the technologies router lets only name through
TechSearchValid(query) == Range(ObjectKeys(query)) \subseteq {"name"}

\* GET /techs : the query is validated and handed to findAll
GetTechsHandler(query) ==
    IF ~TechSearchValid(query)
    THEN Threw("BadRequestError", "validation", <<>>)
    ELSE TechnologyFindAll(query)

\* the handler of a route, once the request has come through the gate; the
\* handlers of the gated routes are entered with next()
Handler(route, param) ==
    CASE route = "GET /techs"     -> GetTechsHandler(param)
      [] route = "GET /techs/:id" -> TechnologyGet(param)
      [] OTHER                    -> Returned(<<"next()">>, <<>>)

\* a request: the gate of the route first, which ends the request with an
\* error or lets it through to the handler; a route without gate goes to
\* its handler at once.  param is the :username, the :id or the query
Pass(route, user, param) ==
    LET gate == RouteGate(route)
    IN  CASE gate = "ensureIsAdmin" -> ensureIsAdmin(user)
          [] gate = "ensureAdminOrCorrectUser" -> ensureAdminOrCorrectUser(user, param)
          [] OTHER -> TRUE

Request(route, user, param) ==
    LET out == IF Pass(route, user, param) THEN Handler(route, param)
               ELSE DenyOutcome(user)
    IN  /\ resp' = Resp(route, <<user, param>>, out)
        /\ queries' = out.q
        /\ UNCHANGED <<storeVars, subsetVars, sqlVars, inflight>>

(***************************************************************************)
(* routes/users.js : PATCH /:username, DELETE /:username;                  *)
(* routes/technologies.js : PATCH /:id, DELETE /:id.  The gate is the      *)
(* first function of the route, the handler the second: the handler        *)
(* validates the body (PATCH) and calls the model.                         *)
(***************************************************************************)
WriteRoutes == {"PATCH /users/:username", "DELETE /users/:username",
                "PATCH /techs/:id", "DELETE /techs/:id"}

\* the fields the update schemas admit
UpdateSchemaKeys(route) ==
    CASE route = "PATCH /users/:username" -> {"firstName", "lastName", "password", "email"}
      [] route = "PATCH /techs/:id"       -> {"name"}
      [] OTHER                            -> {}

BodyValid(route, body) == \A i \in 1..Len(body) : body[i][1] \in UpdateSchemaKeys(route)

\* an outcome that leaves the tables as they are
Kept(out) ==
    [out |-> out, users |-> users, technologies |-> technologies,
     applications |-> applications, techskills |-> techskills,
     requirements |-> requirements]

WriteHandler(route, param, body, cascade) ==
    CASE route = "PATCH /users/:username" ->
             IF ~BodyValid(route, body)
             THEN Kept(Threw("BadRequestError", "instance", <<>>))
             ELSE LET r == UserUpdate(param, body)
                  IN  [Kept(r.out) EXCEPT !.users = r.rows]
      [] route = "PATCH /techs/:id" ->
             IF ~BodyValid(route, body)
             THEN Kept(Threw("BadRequestError", "instance", <<>>))
             ELSE LET r == TechnologyUpdate(param, body)
                  IN  [Kept(r.out) EXCEPT !.technologies = r.rows]
      [] route = "DELETE /users/:username" ->
             LET r == UserRemove(param, cascade)
             IN  [Kept(IF r.out.threw = "none"
                       THEN Returned([deleted |-> param], r.out.q) ELSE r.out)
                  EXCEPT !.users = r.users, !.applications = r.applications,
                         !.techskills = r.techskills]
      [] route = "DELETE /techs/:id" ->
             LET r == TechnologyRemove(param, cascade)
             IN  [Kept(IF r.out.threw = "none"
                       THEN Returned([deleted |-> param], r.out.q) ELSE r.out)
                  EXCEPT !.technologies = r.technologies,
                         !.techskills = r.techskills,
                         !.requirements = r.requirements]

\* variant: the body is validated before the gate is asked
WriteOutcome_validateFirst(route, user, param, body, cascade) ==
    IF ~BodyValid(route, body) /\ route \in {"PATCH /users/:username", "PATCH /techs/:id"}
    THEN Kept(Threw("BadRequestError", "instance", <<>>))
    ELSE IF Pass(route, user, param)
    THEN WriteHandler(route, param, body, cascade)
    ELSE Kept(DenyOutcome(user))

WriteOutcome(route, user, param, body, cascade) ==
    IF Pass(route, user, param)
    THEN WriteHandler(route, param, body, cascade)
    ELSE Kept(DenyOutcome(user))

WriteRequest(route, user, param, body) ==
    \E cascade \in BOOLEAN :
        LET r == WriteOutcome(route, user, param, body, cascade)
        IN  /\ users' = r.users
            /\ technologies' = r.technologies
            /\ applications' = r.applications
            /\ techskills' = r.techskills
            /\ requirements' = r.requirements
            /\ resp' = Resp(route, <<user, param, body>>, r.out)
            /\ queries' = r.out.q
            /\ UNCHANGED <<jobs, techSeq, subsetVars, sqlVars, inflight>>

(***************************************************************************)
(* Specifications                                                          *)
(***************************************************************************)
IdleSubset == arr1 = <<>> /\ arr2 = <<>> /\ subsetOut = NoSubsetOut
IdleSql    == dataToUpdate = <<>> /\ jsToSql = <<>> /\ sqlOut = NoSqlOut
NoCalls    == <<>>
IdleCall   == resp = NoResp /\ queries = <<>> /\ inflight = NoCalls

\* the store as the test fixtures fill it, with the jobs in any table order
InitStore ==
    /\ users = {UserRow(u) : u \in Usernames}
    /\ jobs \in Orderings({JobRow(i) : i \in JobIds})
    /\ technologies = [i \in TechIds |-> TechRow(i)]
    /\ requirements = EmptyBag
    /\ techskills = EmptyBag
    /\ applications = SetToBag({[username |-> "u1", job_id |-> 1]})
    /\ techSeq = NumTechs

\* calls of isSubset on arrays of technology ids
InitSubset ==
    /\ arr1 \in SeqsUpTo(Elems, MaxLen)
    /\ arr2 \in SeqsUpTo(Elems, MaxLen)
    /\ subsetOut = NoSubsetOut
    /\ IdleSql /\ IdleCall
    /\ InitStore /\ jobs = <<JobRow(1), JobRow(2)>>

NextSubset == CallIsSubset
SpecSubset == InitSubset /\ [][NextSubset]_vars

\* calls of sqlForPartialUpdate with the name tables of the three models
FieldNames  == {"firstName", "companyHandle", "name"}
FieldValues == {"X", "Aliya"}

InitSql ==
    /\ dataToUpdate \in Objects(FieldNames, FieldValues, MaxFields)
    /\ jsToSql \in {UserJsToSql, JobJsToSql, TechJsToSql}
    /\ sqlOut = NoSqlOut
    /\ IdleSubset /\ IdleCall
    /\ InitStore /\ jobs = <<JobRow(1), JobRow(2)>>

NextSql == CallSqlForPartialUpdate
SpecSql == InitSql /\ [][NextSql]_vars

\* calls of sqlForPartialUpdate with a name table, with an empty one and
\* with none
InitSqlTable ==
    /\ dataToUpdate \in Objects(FieldNames, FieldValues, MaxFields)
    /\ jsToSql \in {NoTable, TechJsToSql, UserJsToSql, JobJsToSql}
    /\ sqlOut = NoSqlOut
    /\ IdleSubset /\ IdleCall
    /\ InitStore /\ jobs = <<JobRow(1), JobRow(2)>>

SpecSqlTable == InitSqlTable /\ [][NextSql]_vars

\* findAll calls with every filter set over a few values of each key, on a
\* store that also holds a job without salary and equity
JobRowNoSalary ==
    [id |-> 3, title |-> <<"J", "4">>, salary |-> Null, equity |-> Null,
     company_handle |-> "c1"]

TitleValues     == {<<>>, <<"j">>, <<"_">>}
MinSalaryValues == {0, 2}
HasEquityValues == {JsBoolean(TRUE), JsBoolean(FALSE), JsString("false")}
NameValues      == {<<>>, <<"T", "E">>, <<"1">>}

FilterValues(key) ==
    CASE key = "title"     -> TitleValues
      [] key = "minSalary" -> MinSalaryValues
      [] key = "hasEquity" -> HasEquityValues
      [] key = "name"      -> NameValues

\* the objects holding, for each key of keys that is chosen, one of its values
RECURSIVE FilterSets(_)
FilterSets(keys) ==
    IF Len(keys) = 0 THEN {<<>>}
    ELSE LET rest == FilterSets(Tail(keys))
         IN  rest \cup {<<<<Head(keys), v>>>> \o f :
                           v \in FilterValues(Head(keys)), f \in rest}

JobFilters  == FilterSets(<<"title", "minSalary", "hasEquity">>)
TechFilters == FilterSets(<<"name">>)

InitFind ==
    /\ users = {UserRow(u) : u \in Usernames}
    /\ jobs \in Orderings({JobRow(i) : i \in JobIds} \cup {JobRowNoSalary})
    /\ technologies = [i \in TechIds |-> TechRow(i)]
    /\ requirements = EmptyBag /\ techskills = EmptyBag /\ applications = EmptyBag
    /\ techSeq = NumTechs
    /\ IdleSubset /\ IdleSql /\ IdleCall

NextFind ==
    \/ \E f \in JobFilters : FindAllJobs(f)
    \/ \E f \in TechFilters : FindAllTechnologies(f)

SpecFind == InitFind /\ [][NextFind]_vars

\* requests from nobody, from users and from admins; among the usernames of
\* the tokens are the ones the routes name, one differing in letter case and
\* one that is a prefix
TokenUsernames == {"u1", "U1", "u", "u2"}
Identities ==
    {Anonymous} \cup {Identity(u, a) : u \in TokenUsernames, a \in BOOLEAN}
TechQueries == {<<>>, <<<<"name", <<"1">>>>>>, <<<<"id", <<"2">>>>>>}

InitRoutes ==
    /\ InitStore /\ jobs = <<JobRow(1), JobRow(2)>>
    /\ IdleSubset /\ IdleSql /\ IdleCall

NextRoutes ==
    \/ \E r \in UsernameRoutes, user \in Identities, u \in Usernames :
           Request(r, user, u)
    \/ \E user \in Identities, q \in TechQueries : Request("GET /techs", user, q)
    \/ \E user \in Identities, t \in {1, NumTechs + 1} :
           Request("GET /techs/:id", user, t)
    \/ \E r \in Routes \ (UsernameRoutes \cup {"GET /techs", "GET /techs/:id"}),
          user \in Identities :
           Request(r, user, Undefined)

SpecRoutes == InitRoutes /\ [][NextRoutes]_vars

\* matched-jobs requests between additions of skills and requirements
Init ==
    /\ InitStore
    /\ IdleSubset /\ IdleSql /\ IdleCall

Next ==
    \/ \E u \in AnyUsername : MatchedJobs(u)
    \/ \E u \in AnyUsername, t \in AnyTechId : AddTechSkill(u, t)
    \/ \E j \in AnyJobId, t \in AnyTechId : RequireTech(j, t)

Spec == Init /\ [][Next]_vars

\* update calls on one stored and one missing record of each model; every
\* field of an update mapping carries the one new value of its kind
NewValue(field) ==
    CASE field = "title"   -> <<"X">>
      [] field = "salary"  -> 9
      [] field = "equity"  -> 5
      [] field = "isAdmin" -> TRUE
      [] field = "name"    -> "tech2"
      [] OTHER             -> "X"

UpdateData(fields) ==
    {[i \in 1..Len(ks) |-> <<ks[i], NewValue(ks[i])>>] :
        ks \in {k \in SeqsUpTo(fields, MaxFields) :
                   \A i, j \in 1..Len(k) : k[i] = k[j] => i = j}}

UserUpdateFields == {"firstName", "password", "email"}
JobUpdateFields  == {"title", "salary", "equity"}
TechUpdateFields == {"name"}

InitUpdate ==
    /\ InitStore /\ jobs = <<JobRow(1), JobRow(2)>>
    /\ IdleSubset /\ IdleSql /\ IdleCall

NextUpdate ==
    \/ \E u \in {"u1", "xx"}, d \in UpdateData(UserUpdateFields) : UpdateUser(u, d)
    \/ \E j \in {1, 3}, d \in UpdateData(JobUpdateFields) : UpdateJob(j, d)
    \/ \E t \in {1, NumTechs + 1}, d \in UpdateData(TechUpdateFields) :
           UpdateTechnology(t, d)

SpecUpdate == InitUpdate /\ [][NextUpdate]_vars

\* PATCH and DELETE requests on one stored and one missing user and
\* technology, from every kind of caller, with valid and invalid bodies
WriteIdentities ==
    {Anonymous, Identity("u1", FALSE), Identity("u2", FALSE), Identity("u2", TRUE),
     Identity("xx", FALSE)}
UserBodies == {<<>>, <<<<"firstName", "X">>>>, <<<<"id", "X">>>>}
TechBodies == {<<<<"name", "tech2">>>>, <<<<"id", "X">>>>}

InitWrite ==
    /\ InitStore /\ jobs = <<JobRow(1), JobRow(2)>>
    /\ IdleSubset /\ IdleSql /\ IdleCall

NextWrite ==
    \/ \E user \in WriteIdentities, u \in {"u1", "xx"}, b \in UserBodies :
           WriteRequest("PATCH /users/:username", user, u, b)
    \/ \E user \in WriteIdentities, u \in {"u1", "xx"} :
           WriteRequest("DELETE /users/:username", user, u, <<>>)
    \/ \E user \in WriteIdentities, t \in {1, NumTechs + 1}, b \in TechBodies :
           WriteRequest("PATCH /techs/:id", user, t, b)
    \/ \E user \in WriteIdentities, t \in {1, NumTechs + 1} :
           WriteRequest("DELETE /techs/:id", user, t, <<>>)

SpecWrite == InitWrite /\ [][NextWrite]_vars

\* create-type calls, each repeated on the key it has just stored
NewUser(u) ==
    [username |-> u, password |-> "pw", firstName |-> "F", lastName |-> "L",
     email |-> "e@email.com", isAdmin |-> FALSE]

InitCreate ==
    /\ InitStore /\ jobs = <<JobRow(1), JobRow(2)>>
    /\ IdleSubset /\ IdleSql /\ IdleCall

NextCreate ==
    \/ \E n \in {"tech1", "tech3"} : CreateTechnology(n)
    \/ \E u \in {"u1", "u3"} : Register(NewUser(u))
    \/ \E u \in {"u1", "u2"} : ApplyToJob(u, 1)
    \/ \E t \in TechIds : AddTechSkill("u1", t)
    \/ \E t \in TechIds : RequireTech(1, t)

SpecCreate == InitCreate /\ [][NextCreate]_vars

\* get, update and remove calls on one stored and one missing record of
\* each model
InitCrud ==
    /\ InitStore /\ jobs = <<JobRow(1), JobRow(2)>>
    /\ IdleSubset /\ IdleSql /\ IdleCall

NextCrud ==
    \/ \E u \in {"u1", "xx"} : GetUser(u)
    \/ \E u \in {"u1", "xx"} : UpdateUser(u, <<<<"firstName", NewValue("firstName")>>>>)
    \/ \E u \in {"u1", "xx"} : RemoveUser(u)
    \/ \E j \in {1, 3} : GetJob(j)
    \/ \E j \in {1, 3} : UpdateJob(j, <<<<"salary", NewValue("salary")>>>>)
    \/ \E j \in {1, 3} : RemoveJob(j)
    \/ \E t \in {1, NumTechs + 1} : GetTechnology(t)
    \/ \E t \in {1, NumTechs + 1} : UpdateTechnology(t, <<<<"name", "X">>>>)
    \/ \E t \in {1, NumTechs + 1} : RemoveTechnology(t)

SpecCrud == InitCrud /\ [][NextCrud]_vars

\* password updates and logins; the passwords tried are the one of the
\* fixtures, a new one and the empty one
Passwords(u) == {"password-" \o u, "new-password", ""}

InitPassword ==
    /\ InitStore /\ jobs = <<JobRow(1), JobRow(2)>>
    /\ IdleSubset /\ IdleSql /\ IdleCall

NextPassword ==
    \/ \E u \in AnyUsername : \E p \in Passwords(u) :
           UpdateUser(u, <<<<"password", p>>>>)
    \/ \E u \in AnyUsername : \E p \in Passwords(u) : Authenticate(u, p)

SpecPassword == InitPassword /\ [][NextPassword]_vars

\* create, update and remove calls on the technologies, with names that
\* are stored and names that are not
MaxTechSeq == NumTechs + 2      \* last id the sequence gives out

InitTech ==
    /\ InitStore /\ jobs = <<JobRow(1), JobRow(2)>>
    /\ IdleSubset /\ IdleSql /\ IdleCall

NextTech ==
    \/ \E n \in {"tech1", "tech3"} : techSeq < MaxTechSeq /\ CreateTechnology(n)
    \/ \E t \in 1..MaxTechSeq, n \in {"tech2", "tech3"} :
           UpdateTechnology(t, <<<<"name", n>>>>)
    \/ \E t \in 1..MaxTechSeq : RemoveTechnology(t)

SpecTech == InitTech /\ [][NextTech]_vars

\* two calls of the same create-type operation with the same arguments,
\* their statements interleaved in every way
RaceCalls ==
    {Call("User.applyToJob", <<"u2", 1>>), Call("User.applyToJob", <<"u1", 1>>),
     Call("User.applyToJob", <<"xx", 1>>), Call("User.applyToJob", <<"u2", 3>>),
     Call("User.addTechSkill", <<"u1", 1>>), Call("User.addTechSkill", <<"u1", NumTechs + 1>>),
     Call("Job.requireTech", <<1, 1>>), Call("Job.requireTech", <<3, 1>>),
     Call("Technology.create", <<"tech3">>), Call("Technology.create", <<"tech1">>)}

InitRace ==
    /\ InitStore /\ jobs = <<JobRow(1), JobRow(2)>>
    /\ IdleSubset /\ IdleSql
    /\ resp = NoResp /\ queries = <<>>
    /\ \E c \in RaceCalls : inflight = [p \in Procs |-> c]

NextRace ==
    \/ \E p \in Procs : RunSelect(p)
    \/ \E p \in Procs : RunInsert(p)

SpecRace == InitRace /\ [][NextRace]_vars

\* skills added to one user, between requirements added to one job and
\* matched-jobs requests of the user
InitSkill ==
    /\ InitStore
    /\ IdleSubset /\ IdleSql /\ IdleCall

NextSkill ==
    \/ MatchedJobs("u1")
    \/ \E t \in AnyTechId : AddTechSkill("u1", t)
    \/ \E t \in TechIds : RequireTech(1, t)

SpecSkill == InitSkill /\ [][NextSkill]_vars

(***************************************************************************)
(* Properties                                                              *)
(***************************************************************************)
UpdateOps == {"User.update", "Job.update", "Technology.update"}

\* what the store holds for a user and for a job
SkillSet(username)  == {sk.tech_id : sk \in {x \in BagToSet(techskills) : x.username = username}}
RequirementSet(id)  == {r.tech_id : r \in {x \in BagToSet(requirements) : x.job_id = id}}
BodyIds(body)       == {body[i].id : i \in 1..Len(body)}
UserStored(username) == \E r \in users : r.username = username

\* the column a field is stored under: its entry in the name table, or itself
PhysicalName(table, field) ==
    IF HasKey(table, field) THEN Lookup(table, field) ELSE field

\* C1 (as stated): isSubset(R, S) is true exactly when every element of R is
\* in S, also when both are empty
C1_SubsetIff ==
    subsetOut.called => (subsetOut.ret <=> Range(arr1) \subseteq Range(arr2))

\* C1 (amended): isSubset(R, S) is true exactly when S is not empty and every
\* element of R is in S; so isSubset([], []) is false
C1_SubsetIffNonEmptySkills ==
    subsetOut.called =>
        (subsetOut.ret <=> (Len(arr2) # 0 /\ Range(arr1) \subseteq Range(arr2)))

C1_Witness == subsetOut.called /\ Len(arr1) = 0 /\ Len(arr2) = 0

\* C2: isSubset is false whenever the second array is empty, whatever the
\* first, and true whenever the first is empty and the second is not
C2_EmptyArrays ==
    subsetOut.called =>
        /\ (Len(arr2) = 0 => ~subsetOut.ret)
        /\ (Len(arr1) = 0 /\ Len(arr2) # 0 => subsetOut.ret)

C2_Witness == subsetOut.called /\ Len(arr1) = 0 /\ Len(arr2) = 2 /\ subsetOut.ret

\* C3 (as stated): for an existing user, matched-jobs answers exactly the
\* postings whose requirement set is inside the user's skill set, also for a
\* user without skills
C3_MatchIffSubset ==
    (resp.op = "matched-jobs" /\ UserStored(resp.args[1])) =>
        /\ resp.error = "none"
        /\ \A i \in 1..Len(jobs) :
              jobs[i].id \in BodyIds(resp.body)
                  <=> RequirementSet(jobs[i].id) \subseteq SkillSet(resp.args[1])

\* C3 (amended): for an existing user, matched-jobs answers exactly the
\* postings whose requirement set is inside the user's skill set, provided the
\* user has at least one skill; a user without skills is answered no posting
C3_MatchIffSubsetOfSomeSkills ==
    (resp.op = "matched-jobs" /\ UserStored(resp.args[1])) =>
        /\ resp.error = "none"
        /\ \A i \in 1..Len(jobs) :
              jobs[i].id \in BodyIds(resp.body)
                  <=> /\ SkillSet(resp.args[1]) # {}
                      /\ RequirementSet(jobs[i].id) \subseteq SkillSet(resp.args[1])

C3_Witness ==
    /\ resp.op = "matched-jobs" /\ resp.error = "none"
    /\ Len(resp.body) = 1
    /\ RequirementSet(resp.body[1].id) # {}
    /\ SkillSet(resp.args[1]) # TechIds

\* C4: the postings matched-jobs answers are a subsequence of the list
\* Job.findAll() returns: each is in the list, none twice, in the list's order
C4_Subsequence ==
    (resp.op = "matched-jobs" /\ resp.error = "none") =>
        LET all == JobFindAll(<<>>).val
        IN  \E f \in [1..Len(resp.body) -> 1..Len(all)] :
                /\ \A i, j \in 1..Len(resp.body) : i < j => f[i] < f[j]
                /\ \A i \in 1..Len(resp.body) : resp.body[i].id = all[f[i]].id

C4_Witness ==
    /\ resp.op = "matched-jobs" /\ Len(resp.body) = 2
    /\ resp.body[1].id > resp.body[2].id

\* C5: a matched-jobs request for a username that is not stored fails with
\* NotFoundError before any statement on jobs, companies or requirements
C5_NotFoundBeforeJobs ==
    (resp.op = "matched-jobs" /\ ~UserStored(resp.args[1])) =>
        /\ resp.error = "NotFoundError"
        /\ \A i \in 1..Len(queries) :
              Range(queries[i].sql) \cap {"jobs", "companies", "requirements"} = {}

C5_Witness ==
    resp.op = "matched-jobs" /\ resp.args = <<"xx">> /\ Len(queries) = 1

C7_CountsAgree ==
    (sqlOut.called /\ Len(dataToUpdate) > 0) =>
        /\ sqlOut.threw = "none"
        /\ Len(sqlOut.values) = Len(dataToUpdate)
        /\ PlaceholderCount(sqlOut.setCols) = Len(dataToUpdate)

C7_Witness ==
    sqlOut.called /\ Len(sqlOut.values) = 2 /\ jsToSql = JobJsToSql

\* C8: an update of a user, job or technology with an empty mapping fails
\* with BadRequestError "No data", sends no statement and changes no table
C8_EmptyUpdateRejected ==
    [][(resp'.op \in UpdateOps /\ Len(resp'.args[2]) = 0) =>
          /\ resp'.error = "BadRequestError"
          /\ resp'.message = "No data"
          /\ queries' = <<>>
          /\ storeVars' = storeVars]_vars

C8_Witness ==
    /\ resp.op = "Technology.update" /\ Len(resp.args[2]) = 0
    /\ resp.error = "BadRequestError"
    /\ \E r \in users : r # UserRow(r.username)

\* C9: the i-th assignment of the SET clause is for the i-th field, uses
\* placeholder $i, and the i-th value is the one supplied for that field
C9_PlaceholdersInOrder ==
    (sqlOut.called /\ sqlOut.threw = "none") =>
        LET as   == Assignments(sqlOut.setCols)
            keys == ObjectKeys(dataToUpdate)
        IN  /\ Len(as) = Len(keys)
            /\ Len(sqlOut.values) = Len(keys)
            /\ \A i \in 1..Len(as) :
                  /\ IsPlaceholder(as[i][5])
                  /\ AssignedParam(as[i]) = i
                  /\ {k \in Range(keys) :
                        PhysicalName(jsToSql, k) = AssignedCol(as[i])} = {keys[i]}
                  /\ sqlOut.values[AssignedParam(as[i])] = Lookup(dataToUpdate, keys[i])

C9_Witness ==
    /\ sqlOut.called /\ Len(dataToUpdate) = 2
    /\ dataToUpdate[1][1] = "name" /\ dataToUpdate[2][1] = "firstName"
    /\ dataToUpdate[1][2] # dataToUpdate[2][2]

\* C10: a field with an entry in the name table is written under the mapped
\* column, a field without one under its own name; {name: "X"} gives
\* "name"=$1 with the values ["X"]
C10_ColumnNames ==
    (sqlOut.called /\ sqlOut.threw = "none") =>
        LET as   == Assignments(sqlOut.setCols)
            keys == ObjectKeys(dataToUpdate)
        IN  /\ Len(as) = Len(keys)
            /\ \A i \in 1..Len(as) :
                  AssignedCol(as[i]) = IF HasKey(jsToSql, keys[i])
                                       THEN Lookup(jsToSql, keys[i])
                                       ELSE keys[i]
            /\ (dataToUpdate = <<<<"name", "X">>>> =>
                  /\ sqlOut.setCols = <<"\"", "name", "\"", "=", "$1">>
                  /\ sqlOut.values = <<"X">>)

C10_Witness ==
    /\ sqlOut.called /\ jsToSql = UserJsToSql
    /\ dataToUpdate = <<<<"firstName", "Aliya">>, <<"name", "X">>>>
    /\ sqlOut.setCols = <<"\"", "first_name", "\"", "=", "$1", ", ",
                          "\"", "name", "\"", "=", "$2">>

\* C11 (as stated): a call of sqlForPartialUpdate with fields to render and
\* no name table succeeds, and its SET clause and values are the ones the
\* same call with an empty table gives, every field under its logical name
C11_TableOptional ==
    (sqlOut.called /\ jsToSql = NoTable /\ Len(dataToUpdate) > 0) =>
        /\ sqlOut.threw = "none"
        /\ sqlOut.setCols = sqlForPartialUpdate(dataToUpdate, <<>>).setCols
        /\ sqlOut.values = sqlForPartialUpdate(dataToUpdate, <<>>).values

\* C11 (amended): a call of sqlForPartialUpdate with fields to render and no
\* name table throws a TypeError and returns nothing; with an empty table the
\* call succeeds and renders every field under its logical name
C11_TableRequired ==
    (sqlOut.called /\ Len(dataToUpdate) > 0) =>
        /\ (jsToSql = NoTable =>
               /\ sqlOut.threw = "TypeError"
               /\ sqlOut.setCols = <<>> /\ sqlOut.values = <<>>)
        /\ (jsToSql = <<>> =>
               /\ sqlOut.threw = "none"
               /\ LET as   == Assignments(sqlOut.setCols)
                      keys == ObjectKeys(dataToUpdate)
                  IN  /\ Len(as) = Len(keys)
                      /\ \A i \in 1..Len(as) : AssignedCol(as[i]) = keys[i])

C11_Witness ==
    /\ sqlOut.called /\ jsToSql = NoTable
    /\ Len(dataToUpdate) = 2 /\ sqlOut.threw = "TypeError"

\* the columns an update mapping names, under the name table of its model
TouchedCols(table, data) ==
    {PhysicalName(table, k) : k \in Range(ObjectKeys(data))}

\* row new is row old but for the columns in touched
SameBut(old, new, columns, touched) ==
    \A c \in columns \ touched : new[c] = old[c]

\* C12: a successful update of a user, job or technology leaves every other
\* record and every other table as it was, and on the record it names every
\* column the mapping has no field for
C12_SelectiveUpdate ==
    [][(resp'.op \in UpdateOps /\ resp'.error = "none") =>
          LET id   == resp'.args[1]
              data == resp'.args[2]
          IN  /\ <<requirements', techskills', applications'>>
                    = <<requirements, techskills, applications>>
              /\ IF resp'.op = "User.update"
                 THEN /\ jobs' = jobs /\ technologies' = technologies
                      /\ {r \in users' : r.username # id}
                            = {r \in users : r.username # id}
                      /\ \A old \in users : old.username = id =>
                            \E new \in users' :
                               /\ users' \ users \subseteq {new}
                               /\ SameBut(old, new, UserColumns,
                                          TouchedCols(UserJsToSql, data))
                 ELSE IF resp'.op = "Job.update"
                 THEN /\ users' = users /\ technologies' = technologies
                      /\ Len(jobs') = Len(jobs)
                      /\ \A i \in 1..Len(jobs) :
                            IF jobs[i].id # id THEN jobs'[i] = jobs[i]
                            ELSE SameBut(jobs[i], jobs'[i], JobColumns,
                                         TouchedCols(JobJsToSql, data))
                 ELSE /\ users' = users /\ jobs' = jobs
                      /\ Len(technologies') = Len(technologies)
                      /\ \A i \in 1..Len(technologies) :
                            IF technologies[i].id # id
                            THEN technologies'[i] = technologies[i]
                            ELSE SameBut(technologies[i], technologies'[i],
                                         TechColumns, TouchedCols(TechJsToSql, data))]_vars

C12_Witness ==
    /\ resp.op = "User.update" /\ resp.error = "none"
    /\ ObjectKeys(resp.args[2]) = <<"firstName">>
    /\ \E r \in users : /\ r.username = resp.args[1]
                        /\ r.first_name = "X"
                        /\ r.email = UserRow(r.username).email
    /\ \E i \in 1..Len(jobs) : jobs[i] # JobRow(jobs[i].id)

FindOps == {"Job.findAll", "Technology.findAll"}

\* C13 (as stated): a findAll call binds as many values as its filter set has
\* of the keys title, minSalary and name, whatever their values; hasEquity
\* binds none
C13_ValuePerKey ==
    resp.op \in FindOps =>
        Len(queries[1].params) =
            Cardinality(Range(ObjectKeys(resp.args[1]))
                            \cap {"title", "minSalary", "name"})

\* C14: a findAll call with an empty filter set sends one statement without
\* WHERE and without values, and returns every stored row, in table order
C14_EmptyFilter ==
    (resp.op \in FindOps /\ resp.args[1] = <<>>) =>
        LET table == IF resp.op = "Job.findAll" THEN jobs ELSE technologies
        IN  /\ resp.error = "none"
            /\ Len(queries) = 1
            /\ "WHERE" \notin Range(queries[1].sql)
            /\ queries[1].params = <<>>
            /\ Len(resp.body) = Len(table)
            /\ \A i \in 1..Len(table) : resp.body[i].id = table[i].id

C14_Witness ==
    /\ resp.op = "Job.findAll" /\ resp.args[1] = <<>>
    /\ Len(resp.body) = 3 /\ resp.body[1].id = 3 /\ resp.body[1].salary = Null

\* C15 (as stated): Job.findAll restricts to equity > 0 exactly when the
\* filter set holds hasEquity with the value true; false, the string "false"
\* and an absent key add nothing to the statement
C15_EquityOnlyWhenTrue ==
    resp.op = "Job.findAll" =>
        ("equity" \in Range(queries[1].sql)
            <=> /\ HasKey(resp.args[1], "hasEquity")
                /\ Lookup(resp.args[1], "hasEquity") = JsBoolean(TRUE))

\* text holds part, letter case aside
ContainsText(text, part) ==
    \E k \in 0..(Len(text) - Len(part)) :
        \A i \in 1..Len(part) : Lower(text[k + i]) = Lower(part[i])

\* the filters of a set a job satisfies, as the keys are documented
SatisfiesAll(job, filter) ==
    /\ HasKey(filter, "title") => ContainsText(job.title, Lookup(filter, "title"))
    /\ HasKey(filter, "minSalary") =>
           (job.salary # Null /\ job.salary >= Lookup(filter, "minSalary"))
    /\ (HasKey(filter, "hasEquity")
            /\ Lookup(filter, "hasEquity") = JsBoolean(TRUE)) =>
           (job.equity # Null /\ job.equity > 0)

\* C16 (as stated): Job.findAll returns exactly the jobs that satisfy every
\* filter of the set: the title holds the text, the salary is at least
\* minSalary, the equity is above 0 when hasEquity is true
C16_AllFiltersHold ==
    resp.op = "Job.findAll" =>
        /\ resp.error = "none"
        /\ BodyIds(resp.body)
              = {jobs[i].id : i \in {k \in 1..Len(jobs) :
                                        SatisfiesAll(jobs[k], resp.args[1])}}

\* who a request is from, and the user its route names
From(r)  == r.args[1]
Named(r) == r.args[2]

\* the routes for an admin or the named user, and the routes for admins
AdminOrOwnerRoutes ==
    {"GET /users/:username", "PATCH /users/:username", "DELETE /users/:username",
     "POST /users/:username/jobs/:job_id", "POST /users/:username/techs/:tech_id",
     "GET /users/:username/matched-jobs"}
AdminOnlyRoutes ==
    {"POST /users", "GET /users", "POST /techs", "PATCH /techs/:id",
     "DELETE /techs/:id", "POST /jobs", "PATCH /jobs/:id", "DELETE /jobs/:id",
     "POST /jobs/:id/techs/:tech_id"}

\* C17: on the routes behind ensureAdminOrCorrectUser a request is passed on
\* to the handler exactly when it carries an identity that is an admin's or
\* whose username is, letter for letter, the :username of the route; every
\* other request is ended with an error
C17_AdminOrOwner ==
    resp.op \in AdminOrOwnerRoutes =>
        LET owner == From(resp).present /\ From(resp).username = Named(resp)
            admin == From(resp).present /\ From(resp).isAdmin
        IN  /\ (admin \/ owner) => (resp.error = "none" /\ resp.body = <<"next()">>)
            /\ ~(admin \/ owner) => (resp.error # "none" /\ resp.body = <<>>)

C17_Witness ==
    /\ resp.op = "GET /users/:username/matched-jobs"
    /\ From(resp) = Identity("U1", FALSE) /\ Named(resp) = "u1"
    /\ resp.error = "UnauthorizedError"

\* a request that a gate has ended
Denied(r) == r.op \in AdminOrOwnerRoutes \cup AdminOnlyRoutes /\ r.error # "none"

C19_SameStatus ==
    (resp.op \in AdminOrOwnerRoutes \cup AdminOnlyRoutes
        /\ ~From(resp).isAdmin
        /\ ~(resp.op \in AdminOrOwnerRoutes /\ From(resp).username = Named(resp))) =>
        /\ resp.error # "none"
        /\ StatusCode(resp.error) = 401

C19_Witness ==
    /\ resp.op = "DELETE /techs/:id"
    /\ From(resp) = Identity("u1", FALSE)
    /\ StatusCode(resp.error) = 401

\* C20: POST /users, GET /users and POST, PATCH, DELETE /techs pass a request
\* on exactly when it carries an admin's identity; GET /techs and
\* GET /techs/:id have no gate: they answer a request from nobody as one from
\* anybody, the list for a valid query and the technology for a stored id
C20_AdminOnlyAndPublic ==
    /\ resp.op \in {"POST /users", "GET /users", "POST /techs",
                     "PATCH /techs/:id", "DELETE /techs/:id"} =>
           (resp.error = "none" <=> (From(resp).present /\ From(resp).isAdmin))
    /\ resp.op = "GET /techs" =>
           /\ resp.error # "UnauthorizedError"
           /\ TechSearchValid(Named(resp)) =>
                  /\ resp.error = "none"
                  /\ resp.body = TechnologyFindAll(Named(resp)).val
    /\ resp.op = "GET /techs/:id" =>
           /\ resp.error # "UnauthorizedError"
           /\ Named(resp) \in TechIdsStored =>
                  (resp.error = "none" /\ resp.body.id = Named(resp))

C20_Witness ==
    /\ resp.op = "GET /techs/:id" /\ From(resp) = Anonymous
    /\ resp.error = "none" /\ resp.body.name = "tech1"

\* the body of a write request, and the rule of its route
Body(r) == r.args[3]

RuleDenies(r) ==
    \/ /\ r.op \in {"PATCH /users/:username", "DELETE /users/:username"}
       /\ ~(From(r).present /\ (From(r).isAdmin \/ From(r).username = Named(r)))
    \/ /\ r.op \in {"PATCH /techs/:id", "DELETE /techs/:id"}
       /\ ~(From(r).present /\ From(r).isAdmin)

\* C21: a request to a write route that the route's rule denies (admin or
\* owner on the users routes, admin on the technologies routes) ends with
\* the deny outcome, whatever its body and whether or not its target is
\* stored; it sends no statement to the store and leaves every table as
\* it was
C21_DenyBeforeHandler ==
    [][(resp'.op \in WriteRoutes /\ RuleDenies(resp'))
          => /\ resp'.error = "UnauthorizedError"
             /\ queries' = <<>>
             /\ storeVars' = storeVars]_vars

\* a caller who is neither admin nor owner was denied a PATCH with an
\* invalid body on a user that is not stored
C21_Witness ==
    /\ resp.op = "PATCH /users/:username"
    /\ RuleDenies(resp) /\ From(resp).present
    /\ ~BodyValid(resp.op, Body(resp))
    /\ ~UserStored(Named(resp))
    /\ resp.error = "UnauthorizedError"

\* the key of a create-type call is stored
KeyStored(r) ==
    CASE r.op = "Technology.create" ->
             \E i \in 1..Len(technologies) : technologies[i].name = r.args[1]
      [] r.op = "User.register" -> UserStored(r.args[1].username)
      [] r.op = "User.applyToJob" ->
             BagIn([username |-> r.args[1], job_id |-> r.args[2]], applications)
      [] r.op = "User.addTechSkill" ->
             BagIn([username |-> r.args[1], tech_id |-> r.args[2]], techskills)
      [] r.op = "Job.requireTech" ->
             BagIn([job_id |-> r.args[1], tech_id |-> r.args[2]], requirements)
      [] OTHER -> FALSE

\* C22: a create-type call whose key is stored already (a technology name,
\* a username, a (username, jobId), (username, techId) or (jobId, techId)
\* pair) ends with BadRequestError and leaves every table as it was
C22_DuplicateRejected ==
    [][KeyStored(resp') => (resp'.error = "BadRequestError" /\ storeVars' = storeVars)]_vars

\* an application stored by one call was refused to the next
C22_Witness ==
    /\ resp.op = "User.applyToJob" /\ resp.args = <<"u2", 1>>
    /\ resp.error = "BadRequestError"
    /\ CopiesIn([username |-> "u2", job_id |-> 1], applications) = 1

\* the calls of each model, and whether the identifier of a call is stored
UserOps == {"User.get", "User.update", "User.remove"}
JobOps  == {"Job.get", "Job.update", "Job.remove"}
TechOps == {"Technology.get", "Technology.update", "Technology.remove"}
RemoveOps == {"User.remove", "Job.remove", "Technology.remove"}

IdStored(r) ==
    CASE r.op \in UserOps -> UserStored(r.args[1])
      [] r.op \in JobOps  -> \E i \in 1..Len(jobs) : jobs[i].id = r.args[1]
      [] r.op \in TechOps -> r.args[1] \in TechIdsStored

\* the get or remove of the model whose remove r is
After(r) ==
    CASE r.op = "User.remove"       -> {"User.get", "User.remove"}
      [] r.op = "Job.remove"        -> {"Job.get", "Job.remove"}
      [] r.op = "Technology.remove" -> {"Technology.get", "Technology.remove"}

\* C23: a get, an update with data or a remove whose identifier is not
\* stored ends with NotFoundError after its one statement and leaves every
\* table as it was; and the get or remove that follows a successful remove
\* of the same identifier ends with NotFoundError
C23_NotFound ==
    [][/\ (resp'.op \in UserOps \cup JobOps \cup TechOps /\ ~IdStored(resp'))
            => /\ resp'.error = "NotFoundError"
               /\ Len(queries') = 1
               /\ storeVars' = storeVars
       /\ (/\ resp.op \in RemoveOps /\ resp.error = "none"
           /\ resp'.op \in After(resp) /\ resp'.args[1] = resp.args[1])
            => resp'.error = "NotFoundError"]_vars

\* a technology was removed, and the next remove of it was refused
C23_Witness ==
    /\ resp.op = "Technology.remove" /\ resp.args = <<1>>
    /\ resp.error = "NotFoundError"
    /\ Len(technologies) = NumTechs - 1

\* the effect of a successful password update
StoredPassword(username) == (CHOOSE r \in users : r.username = username).password

PasswordSet(r) ==
    /\ r.op = "User.update" /\ r.error = "none"
    /\ HasKey(r.args[2], "password")

NewPasswordWorks(username, p) ==
    /\ StoredPassword(username)' = Hash(p)
    /\ StoredPassword(username)' # p
    /\ UserAuthenticate(username, p)'.threw = "none"
    /\ \A old \in Passwords(username) \ {p} :
           UserAuthenticate(username, old).threw = "none"
              => UserAuthenticate(username, old)'.threw = "UnauthorizedError"
    /\ "password" \notin DOMAIN resp'.body
    /\ "password" \notin DOMAIN UserAuthenticate(username, p)'.val

\* C24: when User.update(username, {password: p}) has succeeded, the
\* password stored for username is the hash of p and not p, authenticate
\* with p succeeds, authenticate with any other password that was accepted
\* before fails, and neither update nor authenticate returns a password
C24_PasswordChange ==
    [][\A u \in AnyUsername : \A p \in Passwords(u) :
          (PasswordSet(resp') /\ resp'.args = <<u, <<<<"password", p>>>>>>)
             => NewPasswordWorks(u, p)]_vars

\* the statement q of update call r binds the n field values to $1..$n in
\* the order of the fields, and the identifier to $(n+1)
NameTable(op) ==
    CASE op = "User.update" -> UserJsToSql
      [] op = "Job.update"  -> JobJsToSql
      [] OTHER              -> TechJsToSql

IdBoundLast(r, q) ==
    LET n    == Len(r.args[2])
        data == IF r.op = "User.update" THEN WithHashedPassword(r.args[2])
                ELSE r.args[2]
        as   == Assignments(SetClause(q.sql))
    IN  /\ Len(q.params) = n + 1
        /\ WhereParam(q.sql) = n + 1
        /\ q.params[n + 1] = r.args[1]
        /\ PlaceholderCount(q.sql) = n + 1
        /\ {PlaceholderNo(q.sql[i]) :
              i \in {k \in 1..Len(q.sql) : IsPlaceholder(q.sql[k])}} = 1..(n + 1)
        /\ Len(as) = n
        /\ \A i \in 1..n :
              /\ AssignedCol(as[i]) = PhysicalName(NameTable(r.op), data[i][1])
              /\ AssignedParam(as[i]) = i
              /\ q.params[i] = data[i][2]

\* C25: the one statement of User.update, Job.update and Technology.update
\* has the placeholders $1..$(n+1) for n updated fields; the i-th field
\* value is bound to $i, and the identifier is the last parameter, bound to
\* the $(n+1) of the WHERE clause
C25_IdBoundLast ==
    (resp.op \in UpdateOps /\ Len(resp.args[2]) > 0)
       => (Len(queries) = 1 /\ IdBoundLast(resp, queries[1]))

\* a job was updated in two fields
C25_Witness ==
    /\ resp.op = "Job.update" /\ resp.error = "none"
    /\ resp.args[2] = <<<<"salary", 9>>, <<"equity", 5>>>>
    /\ queries[1].sql[Len(queries[1].sql) - 1] = "$3"
    /\ queries[1].params[3] = 1

\* the fragments of the WHERE clause of statement q, and the place of a
\* column in the order title, salary, equity
Fragments(q) ==
    LET at == {i \in 1..Len(q.sql) : q.sql[i] = "WHERE"}
    IN  IF at = {} THEN <<>>
        ELSE SplitOn(SubSeq(q.sql, (CHOOSE i \in at : TRUE) + 1, Len(q.sql)),
                     "AND", <<>>)

ColumnRank(col) ==
    CASE col = "title" -> 1 [] col = "salary" -> 2 [] col = "equity" -> 3 [] OTHER -> 0

BindsValue(frag) == IsPlaceholder(frag[3])

\* how many of the first i fragments bind a value
BoundUpTo(frags, i) == Cardinality({j \in 1..i : BindsValue(frags[j])})

\* C26: in the statement of Job.findAll the fragments come in the order
\* title, salary, equity; the k-th fragment that binds a value uses $k, and
\* the k-th value is the one of its filter: %title% for title, minSalary for
\* salary; the value list has one value for each such fragment
C26_FragmentsInOrder ==
    resp.op = "Job.findAll" =>
        LET q     == queries[1]
            frags == Fragments(q)
            f     == resp.args[1]
        IN  /\ \A i \in 1..Len(frags) : ColumnRank(frags[i][1]) > 0
            /\ \A i, j \in 1..Len(frags) :
                  i < j => ColumnRank(frags[i][1]) < ColumnRank(frags[j][1])
            /\ Len(q.params) = BoundUpTo(frags, Len(frags))
            /\ \A i \in 1..Len(frags) :
                  BindsValue(frags[i]) =>
                     LET k == BoundUpTo(frags, i)
                     IN  /\ frags[i][3] = Placeholder(k)
                         /\ frags[i][1] = "title" =>
                               q.params[k] = <<"%">> \o Lookup(f, "title") \o <<"%">>
                         /\ frags[i][1] = "salary" =>
                               q.params[k] = Lookup(f, "minSalary")
                         /\ frags[i][1] \in {"title", "salary"}

\* all three filters were given, and two values were bound
C26_Witness ==
    /\ resp.op = "Job.findAll" /\ resp.error = "none"
    /\ Len(Fragments(queries[1])) = 3
    /\ Len(queries[1].params) = 2
    /\ queries[1].params[2] = 2

\* C27 (as stated): no two stored technologies have the same name
C27_UniqueNames ==
    \A i, j \in 1..Len(technologies) :
        technologies[i].name = technologies[j].name => i = j

\* the rows stored under the key of call c
RowsFor(c) ==
    CASE c.op = "User.applyToJob"   -> CopiesIn(NewRow(c), applications)
      [] c.op = "User.addTechSkill" -> CopiesIn(NewRow(c), techskills)
      [] c.op = "Job.requireTech"   -> CopiesIn(NewRow(c), requirements)
      [] c.op = "Technology.create" ->
             Cardinality({i \in 1..Len(technologies) : technologies[i].name = c.args[1]})

\* C28 (as stated): when two calls of applyToJob, addTechSkill, requireTech
\* or Technology.create for the same key have both ended, however their
\* statements were interleaved, at most one row is stored under the key and
\* at most one of the calls has returned without error
C28_AtMostOneRow ==
    (\A p \in DOMAIN inflight : Returns(inflight[p])) =>
        \A p \in DOMAIN inflight :
            /\ RowsFor(inflight[p]) <= 1
            /\ Cardinality({q \in DOMAIN inflight : inflight[q].out = "none"}) <= 1

\* C29: when User.addTechSkill succeeds for a user right after a
\* matched-jobs request of that user, and jobs and requirements are as
\* before, every job of that answer is in the answer matched-jobs gives
\* after the call
C29_NoMatchLost ==
    [][(/\ resp.op = "matched-jobs" /\ resp.error = "none"
        /\ resp'.op = "User.addTechSkill" /\ resp'.error = "none"
        /\ resp'.args[1] = resp.args[1]
        /\ jobs' = jobs /\ requirements' = requirements)
          => \A u \in Usernames :
                u = resp.args[1]
                   => /\ MatchedJobsHandler(u)'.threw = "none"
                      /\ BodyIds(resp.body)
                            \subseteq BodyIds(MatchedJobsHandler(u)'.val)]_vars

\* a user matched to a job by one skill has been given a second skill
C29_Witness ==
    /\ resp.op = "User.addTechSkill" /\ resp.error = "none"
    /\ resp.args = <<"u1", 2>>
    /\ SkillSet("u1") = {1, 2}
    /\ RequirementSet(1) = {1}
    /\ 1 \in BodyIds(MatchedJobsHandler("u1").val)

\* a login that must fail: the username is not stored, or the password is
\* not the one whose hash is stored
BadLogin(r) ==
    \/ ~UserStored(r.args[1])
    \/ ~Compare(r.args[2], StoredPassword(r.args[1]))

\* C30: User.authenticate ends in the same way for a username that is not
\* stored and for a stored username with a wrong password: UnauthorizedError
\* "Invalid username/password", after one statement, with no value; and no
\* call of it changes a table
C30_SameFailure ==
    [][resp'.op = "User.authenticate"
          => /\ storeVars' = storeVars
             /\ BadLogin(resp')
                   => /\ resp'.error = "UnauthorizedError"
                      /\ resp'.message = "Invalid username/password"
                      /\ resp'.body = <<>>
                      /\ Len(queries') = 1]_vars

\* a login with a username that is not stored was refused
C30_Witness ==
    /\ resp.op = "User.authenticate" /\ resp.args[1] = "xx"
    /\ resp.error = "UnauthorizedError"
    /\ resp.message = "Invalid username/password"

====
